---- MODULE Spec2Model ----
(***************************************************************************)
(* A model of the book marketplace prototypes and of the label algebras    *)
(* that mediate their stored values:                                       *)
(*   - denning_and_denning/bookmarket.py : linear clearance levels,        *)
(*     SecureVariable cells and the BookMarketDB built from them;          *)
(*   - bookmarket_platform.py : decentralized (owners, readers) labels and *)
(*     the BookMarketPlatform handlers;                                    *)
(*   - denning_and_denning/marketplace.py : the unlabeled BookMarketplace. *)
(* Strings the code matches on are sequences of one-character strings, so  *)
(* that lower() and the substring test are computed, not assumed.          *)
(***************************************************************************)
EXTENDS Integers, Sequences, FiniteSets, TLC

VARIABLES
    variant,   \* which program / client drives this behaviour
    sv,        \* a free-standing SecureVariable (bookmarket.py)
    db,        \* global_db : BookMarketDB (bookmarket.py)
    db2,       \* a second BookMarketDB, run side by side with db
    ni,        \* results of the last operation run on db and db2 alike
    pdb,       \* BookMarketPlatform.db : Database (bookmarket_platform.py)
    mk,        \* BookMarketplace and its BookMarketplaceDB (marketplace.py)
    th,        \* the threads running BookMarketplace handlers step by step
    heap,      \* the SecurityLabel objects a caller of the label algebra holds
    lastOp,    \* the last operation: its name, arguments and outcome
    writes     \* the cell assignments the last operation made, in order

vars == <<variant, sv, db, db2, ni, pdb, mk, th, heap, lastOp, writes>>

----------------------------------------------------------------------------
(* Bounds of the model                                                     *)

MaxOffers == 2
MaxPurchases == 2
MaxPairOffers == 1
MaxPrincipals == 2

----------------------------------------------------------------------------
(* Strings                                                                 *)

Min(S) == CHOOSE x \in S : \A y \in S : x <= y

\* str.lower() on one character of the alphabet used by the inputs
lowerChar(c) ==
    CASE c = "L" -> "l"
      [] c = "S" -> "s"
      [] c = "A" -> "a"
      [] c = "O" -> "o"
      [] c = "W" -> "w"
      [] OTHER -> c

\* str.lower()
lower(s) == [i \in 1..Len(s) |-> lowerChar(s[i])]

\* Python's `q in s` on strings
Contains(q, s) == \E i \in 0..(Len(s) - Len(q)) : SubSeq(s, i + 1, i + Len(q)) = q

DigitChars == <<"0", "1", "2", "3", "4", "5", "6", "7", "8", "9">>

\* str.isdigit()
isdigit(s) == Len(s) > 0 /\ \A i \in 1..Len(s) : \E d \in 1..10 : DigitChars[d] = s[i]

\* str(n) for a natural number n
RECURSIVE str(_)
str(n) == IF n < 10 THEN <<DigitChars[n + 1]>>
          ELSE str(n \div 10) \o <<DigitChars[(n % 10) + 1]>>

----------------------------------------------------------------------------
(* bookmarket.py : SecurityLevel and SecureVariable                        *)

PUBLIC == 0
CUSTOMER == 1
VENDOR == 2
PLATFORM == 3

Levels == {PUBLIC, CUSTOMER, VENDOR, PLATFORM}

can_flow(source_level, target_level) == source_level <= target_level

SecureVariable(value, security_level) ==
    [value |-> value, security_level |-> security_level]

\* get_value: the value, or SecurityException raised
get_value_unchecked(cell, context_level) == [raised |-> FALSE, value |-> cell.value]

get_value(cell, context_level) ==
    IF can_flow(cell.security_level, context_level)
    THEN [raised |-> FALSE, value |-> cell.value]
    ELSE [raised |-> TRUE]

\* set_value: the cell afterwards, and whether SecurityException was raised
set_value_context_unchecked(cell, new_value, source_level, context_level) ==
    IF can_flow(source_level, cell.security_level)
    THEN [raised |-> FALSE, cell |-> [cell EXCEPT !.value = new_value]]
    ELSE [raised |-> TRUE, cell |-> cell]

set_value_assign_then_check(cell, new_value, source_level, context_level) ==
    IF can_flow(source_level, cell.security_level)
       /\ can_flow(context_level, cell.security_level)
    THEN [raised |-> FALSE, cell |-> [cell EXCEPT !.value = new_value]]
    ELSE [raised |-> TRUE, cell |-> [cell EXCEPT !.value = new_value]]

set_value_relabel(cell, new_value, source_level, context_level) ==
    IF can_flow(source_level, cell.security_level)
       /\ can_flow(context_level, cell.security_level)
    THEN [raised |-> FALSE,
          cell |-> [value |-> new_value, security_level |-> source_level]]
    ELSE [raised |-> TRUE, cell |-> cell]

set_value(cell, new_value, source_level, context_level) ==
    IF can_flow(source_level, cell.security_level)
       /\ can_flow(context_level, cell.security_level)
    THEN [raised |-> FALSE, cell |-> [cell EXCEPT !.value = new_value]]
    ELSE [raised |-> TRUE, cell |-> cell]

\* One entry of `writes`: an assignment to a cell's value. via = "set_value"
\* is SecureVariable.set_value; "assign" is a direct `cell.value = ...`;
\* "append" is an in-place list.append on the object the cell holds. For the
\* direct forms the only level at hand is the caller's context.
Write(cell_name, cell, via, source_level, context_level) ==
    [cell |-> cell_name, security_level |-> cell.security_level, via |-> via,
     source_level |-> source_level, context_level |-> context_level]

----------------------------------------------------------------------------
(* bookmarket.py : BookMarketDB                                            *)

CustomersInit ==
    [c \in {"c1", "c2"} |->
        IF c = "c1" THEN [name |-> "Alice", address |-> "123 Main St", opt_in |-> FALSE]
                    ELSE [name |-> "Bob", address |-> "456 Elm St", opt_in |-> TRUE]]

VendorsInit ==
    [v \in {"v1", "v2"} |->
        IF v = "v1" THEN [name |-> "Vintage Books"] ELSE [name |-> "Academic Press"]]

\* BookMarketDB.__init__
BookMarketDB ==
    [customers |-> SecureVariable(CustomersInit, PLATFORM),
     vendors |-> SecureVariable(VendorsInit, PLATFORM),
     book_offers |-> SecureVariable(<<>>, PUBLIC),
     purchases |-> SecureVariable(<<>>, PLATFORM)]

\* The offer_data dictionaries handed to handle_offer / add_book_offer.
\* Prices are in cents.
OfferInputs ==
    { [title |-> <<"L", "o">>, author |-> <<"S">>, year |-> 12,
       publisher |-> <<"A">>, condition |-> "new", description |-> <<"l">>,
       price |-> 2999, vendor_id |-> "v1"],
      [title |-> <<"S", "e">>, author |-> <<"A">>, year |-> 7,
       publisher |-> <<"W">>, condition |-> "new", description |-> <<"d">>,
       price |-> 4999, vendor_id |-> "v2"] }

\* The search strings handed to handle_search / search_books
Queries == { <<>>, <<"L", "O">>, <<"1", "2">>, <<"z">> }

\* f"book_{n}"
BookId(n) == <<"book_", n>>

BookIds == { BookId(n) : n \in 1..(MaxOffers + 1) }

\* customer identifiers; "c9" is not registered
CustomerIds == {"c1", "c9"}

HandlerCustomerIds == {"c1", "c2", "c9"}

Prices == {2999, 4999}

OfferFields ==
    {"id", "title", "author", "year", "publisher", "condition", "description",
     "price", "vendor_id", "available_view", "_available"}

\* The name under which `writes` records a cell of offer number i (from 1)
OfferCell(i, field) == <<"book_offers", i, field>>

\* add_book_offer: the labeled offer it builds
labeled_offer_view_unset(d, offer_data) ==
    [id |-> SecureVariable(BookId(Len(d.book_offers.value) + 1), PUBLIC),
     title |-> SecureVariable(offer_data.title, PUBLIC),
     author |-> SecureVariable(offer_data.author, PUBLIC),
     year |-> SecureVariable(offer_data.year, PUBLIC),
     publisher |-> SecureVariable(offer_data.publisher, PUBLIC),
     condition |-> SecureVariable(offer_data.condition, PUBLIC),
     description |-> SecureVariable(offer_data.description, PUBLIC),
     price |-> SecureVariable(offer_data.price, PUBLIC),
     vendor_id |-> SecureVariable(offer_data.vendor_id, PUBLIC),
     available_view |-> SecureVariable(FALSE, PUBLIC),
     _available |-> SecureVariable(TRUE, PLATFORM)]

labeled_offer(d, offer_data) ==
    [id |-> SecureVariable(BookId(Len(d.book_offers.value) + 1), PUBLIC),
     title |-> SecureVariable(offer_data.title, PUBLIC),
     author |-> SecureVariable(offer_data.author, PUBLIC),
     year |-> SecureVariable(offer_data.year, PUBLIC),
     publisher |-> SecureVariable(offer_data.publisher, PUBLIC),
     condition |-> SecureVariable(offer_data.condition, PUBLIC),
     description |-> SecureVariable(offer_data.description, PUBLIC),
     price |-> SecureVariable(offer_data.price, PUBLIC),
     vendor_id |-> SecureVariable(offer_data.vendor_id, PUBLIC),
     available_view |-> SecureVariable(TRUE, PUBLIC),
     _available |-> SecureVariable(TRUE, PLATFORM)]

\* BookMarketDB.add_book_offer. The list held by book_offers is appended to
\* in place and then assigned back to .value, neither through set_value.
add_book_offer_any_context(d, offer_data, context_level) ==
    LET offer == labeled_offer(d, offer_data)
    IN [raised |-> FALSE,
        db |-> [d EXCEPT !.book_offers.value = Append(d.book_offers.value, offer)],
        ret |-> offer.id.value,
        writes |-> <<>>]

add_book_offer(d, offer_data, context_level) ==
    IF ~can_flow(VENDOR, context_level)
    THEN [raised |-> TRUE, db |-> d, writes |-> <<>>]
    ELSE LET offer == labeled_offer(d, offer_data)
             offers == Append(d.book_offers.value, offer)
         IN [raised |-> FALSE,
             db |-> [d EXCEPT !.book_offers.value = offers],
             ret |-> offer.id.value,
             writes |-> << Write(<<"book_offers">>, d.book_offers, "append",
                                 context_level, context_level),
                           Write(<<"book_offers">>, d.book_offers, "assign",
                                 context_level, context_level) >>]

\* search_books: does the offer match the query
offer_matches(offer, query, context_level) ==
    \/ \E field \in {"title", "author", "publisher", "description"} :
          Contains(lower(query), lower(get_value(offer[field], context_level).value))
    \/ isdigit(query) /\ str(get_value(offer.year, context_level).value) = query

\* search_books: the public-safe result built for a matching offer
search_result(offer, context_level) ==
    [id |-> get_value(offer.id, context_level).value,
     title |-> get_value(offer.title, context_level).value,
     author |-> get_value(offer.author, context_level).value,
     year |-> get_value(offer.year, context_level).value,
     publisher |-> get_value(offer.publisher, context_level).value,
     condition |-> get_value(offer.condition, context_level).value,
     price |-> get_value(offer.price, context_level).value,
     vendor_id |-> get_value(offer.vendor_id, context_level).value]

\* search_books: the loop over the offers, in list order
RECURSIVE search_loop(_, _, _, _)
search_loop(offers, i, query, context_level) ==
    IF i > Len(offers) THEN [raised |-> FALSE, ret |-> <<>>]
    ELSE LET offer == offers[i]
             view == get_value(offer.available_view, context_level)
             rest == search_loop(offers, i + 1, query, context_level)
         IN IF view.raised THEN [raised |-> TRUE]
            ELSE IF ~view.value THEN rest
            ELSE IF \E f \in OfferFields \ {"available_view", "_available"} :
                        get_value(offer[f], context_level).raised
                 THEN [raised |-> TRUE]
            ELSE IF ~offer_matches(offer, query, context_level) \/ rest.raised
                 THEN rest
            ELSE [raised |-> FALSE,
                  ret |-> <<search_result(offer, context_level)>> \o rest.ret]

\* BookMarketDB.search_books
search_books_customers_only(d, query, context_level) ==
    IF context_level < CUSTOMER
    THEN [raised |-> TRUE, db |-> d, writes |-> <<>>]
    ELSE LET r == search_loop(d.book_offers.value, 1, query, context_level)
         IN IF r.raised THEN [raised |-> TRUE, db |-> d, writes |-> <<>>]
            ELSE [raised |-> FALSE, db |-> d, ret |-> r.ret, writes |-> <<>>]

search_books(d, query, context_level) ==
    IF context_level < PUBLIC
    THEN [raised |-> TRUE, db |-> d, writes |-> <<>>]
    ELSE LET r == search_loop(d.book_offers.value, 1, query, context_level)
         IN IF r.raised THEN [raised |-> TRUE, db |-> d, writes |-> <<>>]
            ELSE [raised |-> FALSE, db |-> d, ret |-> r.ret, writes |-> <<>>]

\* BookMarketDB._update_availability_view; book_index counts from 0
update_availability_view_any_context(d, book_index, new_status, context_level) ==
    IF book_index < 0 \/ book_index >= Len(d.book_offers.value)
    THEN [raised |-> FALSE, db |-> d, ret |-> FALSE, writes |-> <<>>]
    ELSE [raised |-> FALSE,
          db |-> [d EXCEPT !.book_offers.value[book_index + 1].available_view.value
                              = new_status],
          ret |-> TRUE,
          writes |-> <<>>]

update_availability_view_keeps_view(d, book_index, new_status, context_level) ==
    IF context_level < PLATFORM
    THEN [raised |-> TRUE, db |-> d, writes |-> <<>>]
    ELSE [raised |-> FALSE, db |-> d, writes |-> <<>>,
          ret |-> (book_index >= 0 /\ book_index < Len(d.book_offers.value))]

update_availability_view(d, book_index, new_status, context_level) ==
    IF context_level < PLATFORM
    THEN [raised |-> TRUE, db |-> d, writes |-> <<>>]
    ELSE IF book_index < 0 \/ book_index >= Len(d.book_offers.value)
         THEN [raised |-> FALSE, db |-> d, ret |-> FALSE, writes |-> <<>>]
         ELSE LET i == book_index + 1
                  cell == d.book_offers.value[i].available_view
              IN [raised |-> FALSE,
                  db |-> [d EXCEPT !.book_offers.value[i].available_view.value = new_status],
                  ret |-> TRUE,
                  writes |-> << Write(OfferCell(i, "available_view"), cell, "assign",
                                      context_level, context_level) >>]

\* purchase_book, lines 227-298: from the price check to the confirmation,
\* on offer number i (from 1) of database d
purchase_tail(d, i, book_id, customer_id, price_check, context_level) ==
    LET book_found == d.book_offers.value[i]
        actual_price == get_value(book_found.price, context_level)
        customers == get_value(d.customers, PLATFORM)
    IN IF actual_price.raised
       THEN [raised |-> TRUE, db |-> d, writes |-> <<>>]
       ELSE IF price_check # actual_price.value
       THEN [raised |-> FALSE, db |-> d, writes |-> <<>>,
             ret |-> [success |-> FALSE, message |-> "Price mismatch",
                      expected |-> actual_price.value]]
       ELSE IF customers.raised
       THEN [raised |-> FALSE, db |-> d, writes |-> <<>>,
             ret |-> [success |-> FALSE, message |-> "Security violation"]]
       ELSE IF customer_id \notin DOMAIN customers.value
       THEN [raised |-> FALSE, db |-> d, writes |-> <<>>,
             ret |-> [success |-> FALSE, message |-> "Customer not found"]]
       ELSE
       LET customer == customers.value[customer_id]
           w1 == set_value(book_found._available, FALSE, PLATFORM, PLATFORM)
           d1 == [d EXCEPT !.book_offers.value[i]._available = w1.cell]
           log1 == << Write(OfferCell(i, "_available"), book_found._available,
                            "set_value", PLATFORM, PLATFORM) >>
           u == update_availability_view(d1, i - 1, FALSE, PLATFORM)
           d2 == u.db
           log2 == log1 \o u.writes
           vendor_id == get_value(book_found.vendor_id, context_level)
           purchase_record ==
               [book_id |-> book_id, customer_id |-> customer_id,
                vendor_id |-> vendor_id.value, price |-> actual_price.value,
                timestamp |-> "2025-05-05"]
           purchases == get_value(d2.purchases, PLATFORM)
           appended == Append(purchases.value, purchase_record)
           d3 == [d2 EXCEPT !.purchases.value = appended]
           log3 == log2 \o << Write(<<"purchases">>, d2.purchases, "append",
                                    PLATFORM, PLATFORM) >>
           w2 == set_value(d3.purchases, appended, PLATFORM, PLATFORM)
           d4 == [d3 EXCEPT !.purchases = w2.cell]
           log4 == log3 \o << Write(<<"purchases">>, d3.purchases, "set_value",
                                    PLATFORM, PLATFORM) >>
           title == get_value(book_found.title, context_level)
           failed(dd, log) ==
               [raised |-> FALSE, db |-> dd, writes |-> log,
                ret |-> [success |-> FALSE, message |-> "Security violation"]]
       IN IF w1.raised THEN failed(d, <<>>)
          ELSE IF u.raised THEN failed(d1, log1)
          ELSE IF vendor_id.raised \/ purchases.raised THEN failed(d2, log2)
          ELSE IF w2.raised THEN failed(d3, log3)
          ELSE IF title.raised THEN failed(d4, log4)
          ELSE [raised |-> FALSE, db |-> d4, writes |-> log4,
                ret |-> [success |-> TRUE,
                         confirmation |->
                             [book_title |-> title.value,
                              price |-> actual_price.value,
                              shipping_address |-> customer.address,
                              customer_name |-> customer.name,
                              book_id |-> book_id],
                         vendor_notification |->
                             [book_id |-> book_id,
                              customer_name |-> customer.name,
                              shipping_address |-> customer.address]]]

\* BookMarketDB.purchase_book
purchase_book(d, book_id, customer_id, price_check, context_level) ==
    IF context_level < CUSTOMER
    THEN [raised |-> TRUE, db |-> d, writes |-> <<>>]
    ELSE
    LET offers == d.book_offers.value
        found == { i \in 1..Len(offers) : offers[i].id.value = book_id }
        unavailable ==
            [raised |-> FALSE, db |-> d, writes |-> <<>>,
             ret |-> [success |-> FALSE, message |-> "Book is no longer available"]]
    IN IF found = {}
       THEN [raised |-> FALSE, db |-> d, writes |-> <<>>,
             ret |-> [success |-> FALSE, message |-> "Book not found"]]
       ELSE
       LET i == Min(found)
           book_found == offers[i]
           available_view == get_value(book_found.available_view, context_level)
           real_available == get_value(book_found._available, PLATFORM)
           \* line 220: bring the public view in line with the real status
           sync == set_value(book_found.available_view, FALSE, PUBLIC, PLATFORM)
       IN IF available_view.raised
          THEN [raised |-> TRUE, db |-> d, writes |-> <<>>]
          ELSE IF real_available.raised
          THEN (IF ~available_view.value THEN unavailable
                ELSE purchase_tail(d, i, book_id, customer_id, price_check, context_level))
          ELSE IF real_available.value
          THEN purchase_tail(d, i, book_id, customer_id, price_check, context_level)
          ELSE IF ~available_view.value THEN unavailable
          ELSE IF sync.raised
          \* the SecurityException of line 220 is caught at line 222, where
          \* available_view is true: the purchase goes on
          THEN purchase_tail(d, i, book_id, customer_id, price_check, context_level)
          ELSE [raised |-> FALSE,
                db |-> [d EXCEPT !.book_offers.value[i].available_view = sync.cell],
                writes |-> << Write(OfferCell(i, "available_view"),
                                    book_found.available_view, "set_value",
                                    PUBLIC, PLATFORM) >>,
                ret |-> [success |-> FALSE, message |-> "Book is no longer available"]]

\* handle_offer
handle_offer(d, offer_data) ==
    LET r == add_book_offer(d, offer_data, VENDOR)
    IN IF r.raised
       THEN [db |-> r.db, writes |-> r.writes,
             ret |-> [success |-> FALSE, error |-> "Security violation"]]
       ELSE [db |-> r.db, writes |-> r.writes,
             ret |-> [success |-> TRUE, book_id |-> r.ret]]

\* handle_search
handle_search(d, search_query) ==
    LET r == search_books(d, search_query, PUBLIC)
    IN IF r.raised
       THEN [db |-> r.db, writes |-> r.writes,
             ret |-> [success |-> FALSE, error |-> "Security violation"]]
       ELSE [db |-> r.db, writes |-> r.writes,
             ret |-> [success |-> TRUE, results |-> r.ret]]

\* handle_purchase
handle_purchase(d, book_id, customer_id, price) ==
    LET r == purchase_book(d, book_id, customer_id, price, CUSTOMER)
    IN IF r.raised
       THEN [db |-> r.db, writes |-> r.writes,
             ret |-> [success |-> FALSE, error |-> "Security violation"]]
       ELSE [db |-> r.db, writes |-> r.writes, ret |-> r.ret]

----------------------------------------------------------------------------
(* bookmarket_platform.py : Principal and SecurityLabel                    *)

\* The Principal objects the platform creates (compared by identity; each
\* is created once, except "MarketingPartners", made anew where it is used)
Principals == {"Alice", "Bob", "BookStore", "RareBooks", "Marketplace"}

\* An argument left out or passed as None, and one that is given
None == <<>>
Some(x) == <<x>>

\* SecurityLabel.__init__
SecurityLabel(owners, readers) ==
    [owners |-> IF owners # None THEN owners[1] ELSE {},
     readers |-> IF readers # None THEN readers[1] ELSE {}]

Label(owners, readers) == SecurityLabel(Some(owners), Some(readers))

\* SecurityLabel.flows_to
flows_to_readers_reversed(self, label) ==
    label.owners \subseteq self.owners /\ label.readers \subseteq self.readers

flows_to_ignores_owners(self, label) ==
    self.readers \subseteq label.readers

flows_to(self, label) ==
    label.owners \subseteq self.owners /\ self.readers \subseteq label.readers

\* SecurityLabel.join
join_readers_intersection(self, label) ==
    Label(self.owners \cap label.owners, self.readers \cap label.readers)

join_keeps_own_owners(self, label) ==
    Label(self.owners, self.readers \cup label.readers)

join_drops_owners(self, label) ==
    Label({}, self.readers \cup label.readers)

join(self, label) ==
    Label(self.owners \cap label.owners, self.readers \cup label.readers)

\* SecurityLabel.meet
meet_owners_intersection(self, label) ==
    Label(self.owners \cap label.owners, self.readers \cap label.readers)

meet_readers_union(self, label) ==
    Label(self.owners \cup label.owners, self.readers \cup label.readers)

meet(self, label) ==
    Label(self.owners \cup label.owners, self.readers \cap label.readers)

\* SecurityLabel.declassify: the new label, or SecurityException raised
declassify_keeps_readers(self, auth_principal, new_readers) ==
    IF auth_principal \in self.owners
    THEN [raised |-> FALSE, label |-> Label(self.owners, self.readers)]
    ELSE [raised |-> TRUE]

declassify(self, auth_principal, new_readers) ==
    IF auth_principal \in self.owners
    THEN LET result == Label(self.owners, self.readers)
         IN [raised |-> FALSE,
             label |-> IF new_readers # None
                       THEN [result EXCEPT !.readers = new_readers[1]]
                       ELSE result]
    ELSE [raised |-> TRUE]

\* The same operations on SecurityLabel objects. h is the sequence of the
\* label objects that exist, an object's identity is its index in h, and a
\* call returns the objects as it leaves them with the identity it returns.

\* SecurityLabel(owners, readers) constructs a new object
new_label(h, label) ==
    [heap |-> Append(h, label), ret |-> Len(h) + 1]

\* self.join(label): intersection() and union() build new sets, which the
\* new object holds
call_join(h, self, label) == new_label(h, join(h[self], h[label]))

\* self.meet(label)
call_meet(h, self, label) == new_label(h, meet(h[self], h[label]))

\* self.declassify(auth_principal, new_readers): result is a new object made
\* of copies of self's sets, and the assignment is to result.readers
call_declassify_in_place(h, self, auth_principal, new_readers) ==
    IF auth_principal \in h[self].owners
    THEN [raised |-> FALSE,
          heap |-> IF new_readers # None
                   THEN [h EXCEPT ![self].readers = new_readers[1]]
                   ELSE h,
          ret |-> self]
    ELSE [raised |-> TRUE, heap |-> h]

call_declassify(h, self, auth_principal, new_readers) ==
    IF auth_principal \in h[self].owners
    THEN LET made == new_label(h, Label(h[self].owners, h[self].readers))
             result == made.ret
         IN [raised |-> FALSE,
             heap |-> IF new_readers # None
                      THEN [made.heap EXCEPT ![result].readers = new_readers[1]]
                      ELSE made.heap,
             ret |-> result]
    ELSE [raised |-> TRUE, heap |-> h]

----------------------------------------------------------------------------
(* bookmarket_platform.py : Database and BookMarketPlatform                *)

\* Database.add_customer
add_customer(d, customer_id, customer_data, label) ==
    [d EXCEPT !.customers =
        [c \in DOMAIN d.customers \cup {customer_id} |->
            IF c = customer_id
            THEN [data |-> customer_data, label |-> label, marketing_opt_in |-> FALSE]
            ELSE d.customers[c]]]

\* Database.add_vendor
add_vendor(d, vendor_id, vendor_data, label) ==
    [d EXCEPT !.vendors =
        [v \in DOMAIN d.vendors \cup {vendor_id} |->
            IF v = vendor_id THEN [data |-> vendor_data, label |-> label]
            ELSE d.vendors[v]]]

\* Database.add_book
add_book_counter_stuck(d, book_data, label) ==
    LET book_id == d.next_book_id
    IN [db |-> [d EXCEPT
                  !.books = [b \in DOMAIN d.books \cup {book_id} |->
                                IF b = book_id
                                THEN [data |-> book_data, label |-> label,
                                      status |-> "available"]
                                ELSE d.books[b]]],
        ret |-> book_id]

add_book_reuses_sold_key(d, book_data, label) ==
    LET sold == { b \in DOMAIN d.books : d.books[b].status = "sold" }
        book_id == IF sold # {} THEN Min(sold) ELSE d.next_book_id
    IN [db |-> [d EXCEPT
                  !.next_book_id = IF sold # {} THEN @ ELSE book_id + 1,
                  !.books = [b \in DOMAIN d.books \cup {book_id} |->
                                IF b = book_id
                                THEN [data |-> book_data, label |-> label,
                                      status |-> "available"]
                                ELSE d.books[b]]],
        ret |-> book_id]

add_book(d, book_data, label) ==
    LET book_id == d.next_book_id
    IN [db |-> [d EXCEPT
                  !.next_book_id = book_id + 1,
                  !.books = [b \in DOMAIN d.books \cup {book_id} |->
                                IF b = book_id
                                THEN [data |-> book_data, label |-> label,
                                      status |-> "available"]
                                ELSE d.books[b]]],
        ret |-> book_id]

\* Database.add_purchase
add_purchase_counter_stuck(d, purchase_data, label) ==
    LET purchase_id == d.next_purchase_id
    IN [db |-> [d EXCEPT
                  !.purchases = [q \in DOMAIN d.purchases \cup {purchase_id} |->
                                    IF q = purchase_id
                                    THEN [data |-> purchase_data, label |-> label]
                                    ELSE d.purchases[q]]],
        ret |-> purchase_id]

add_purchase(d, purchase_data, label) ==
    LET purchase_id == d.next_purchase_id
    IN [db |-> [d EXCEPT
                  !.next_purchase_id = purchase_id + 1,
                  !.purchases = [q \in DOMAIN d.purchases \cup {purchase_id} |->
                                    IF q = purchase_id
                                    THEN [data |-> purchase_data, label |-> label]
                                    ELSE d.purchases[q]]],
        ret |-> purchase_id]

\* Database.__init__
Database ==
    [customers |-> <<>>, vendors |-> <<>>, books |-> <<>>, purchases |-> <<>>,
     next_book_id |-> 1, next_purchase_id |-> 1]

\* BookMarketPlatform.__init__ and _setup_initial_data
BookMarketPlatform ==
    LET d1 == add_customer(Database, "alice",
                  [name |-> "Alice Smith", address |-> "123 Main St, Anytown",
                   email |-> "alice@example.com"],
                  Label({"Alice"}, {"Alice", "Marketplace"}))
        d2 == add_customer(d1, "bob",
                  [name |-> "Bob Johnson", address |-> "456 Oak Ave, Othertown",
                   email |-> "bob@example.com"],
                  Label({"Bob"}, {"Bob", "Marketplace"}))
        d3 == add_vendor(d2, "bookstore",
                  [name |-> "BookStore Inc", email |-> "sales@bookstore.com"],
                  Label({"BookStore"}, {"BookStore", "Marketplace"}))
    IN add_vendor(d3, "rarebooks",
                  [name |-> "Rare Books Ltd", email |-> "info@rarebooks.com"],
                  Label({"RareBooks"}, {"RareBooks", "Marketplace"}))

\* list(label.owners)[0]; the labels of customers and vendors have one owner
first_owner(label) == CHOOSE o \in label.owners : TRUE

\* dict.get(key, '')
get_or_empty(dict, key) == IF key \in DOMAIN dict THEN dict[key] ELSE <<>>

\* dict[key] = value
dict_set(dict, key, value) ==
    [k \in DOMAIN dict \cup {key} |-> IF k = key THEN value ELSE dict[k]]

\* The keys whose values are str in the book_data and queries of the model;
\* the values under the other keys are numbers
StrKeys == {"title", "author", "year", "edition", "publisher", "condition",
            "description", "vendor_id"}

\* The book_data dictionaries handed to BookMarketPlatform.handle_offer
BookInputs ==
    { [title |-> <<"L", "o">>, author |-> <<"S">>, year |-> <<"2">>,
       edition |-> <<"1">>, publisher |-> <<"A">>, condition |-> <<"n">>,
       description |-> <<"l">>, price |-> 2999],
      [title |-> <<"S", "e">>, author |-> <<"A">>, price |-> 3999] }

\* The query dictionaries handed to BookMarketPlatform.handle_search
PlatformQueries ==
    { <<>>,
      [title |-> <<"l", "O">>],
      [title |-> <<"s">>, author |-> <<>>],
      [price |-> 3999],
      [edition |-> <<"2">>] }

PlatformVendorIds == {"bookstore", "rarebooks", "nobody"}

\* customer identifiers; "None" stands for the anonymous caller's None
PlatformCustomerIds == {"alice", "None", "nobody"}

PlatformPrices == {2999, 3999}

\* BookMarketPlatform.handle_offer
platform_handle_offer(d, vendor_id, book_data) ==
    IF vendor_id \notin DOMAIN d.vendors
    THEN [db |-> d, ret |-> [success |-> FALSE, message |-> "Vendor not found"]]
    ELSE LET vendor_label == d.vendors[vendor_id].label
             vendor_principal == first_owner(vendor_label)
             book_label == Label({vendor_principal}, {vendor_principal, "Marketplace"})
             r == add_book(d, dict_set(book_data, "vendor_id", vendor_id), book_label)
         IN [db |-> r.db,
             ret |-> [success |-> TRUE, message |-> "Book offer accepted",
                      book_id |-> r.ret]]

\* handle_search: the label it builds for the search record of a customer
search_label(d, customer_id) ==
    LET customer_info == d.customers[customer_id]
        customer_principal == first_owner(customer_info.label)
    IN IF customer_info.marketing_opt_in
       THEN Label({customer_principal}, {"Marketplace", "MarketingPartners"})
       ELSE Label({customer_principal}, {customer_principal, "Marketplace"})

\* handle_search: a falsy query value (an empty string, zero) is skipped
truthy(key, value) == IF key \in StrKeys THEN value # <<>> ELSE value # 0

\* handle_search: does the book match the query
book_matches(book_data, query) ==
    \A key \in DOMAIN query :
        (key \in DOMAIN book_data /\ truthy(key, query[key])) =>
            IF key \in StrKeys
            THEN Contains(lower(query[key]), lower(book_data[key]))
            ELSE book_data[key] = query[key]

\* handle_search: the public fields of a matching book
public_book_data(book_id, book_data) ==
    [book_id |-> book_id,
     title |-> get_or_empty(book_data, "title"),
     author |-> get_or_empty(book_data, "author"),
     year |-> get_or_empty(book_data, "year"),
     edition |-> get_or_empty(book_data, "edition"),
     publisher |-> get_or_empty(book_data, "publisher"),
     condition |-> get_or_empty(book_data, "condition"),
     price |-> get_or_empty(book_data, "price")]

\* handle_search: the loop over the books, in order of insertion
RECURSIVE platform_search_loop(_, _, _)
platform_search_loop(d, book_id, query) ==
    IF book_id \notin DOMAIN d.books THEN <<>>
    ELSE LET book_info == d.books[book_id]
             rest == platform_search_loop(d, book_id + 1, query)
         IN IF book_info.status # "available" THEN rest
            ELSE IF book_matches(book_info.data, query)
                 THEN <<public_book_data(book_id, book_info.data)>> \o rest
                 ELSE rest

\* BookMarketPlatform.handle_search
platform_handle_search(d, customer_id, query) ==
    LET results == platform_search_loop(d, 1, query)
    IN [db |-> d,
        ret |-> [success |-> TRUE, results |-> results, count |-> Len(results)]]

\* BookMarketPlatform.handle_purchase
platform_handle_purchase(d, customer_id, book_id, offered_price) ==
    IF customer_id \notin DOMAIN d.customers
    THEN [db |-> d, ret |-> [success |-> FALSE, message |-> "Customer not found"]]
    ELSE IF book_id \notin DOMAIN d.books
    THEN [db |-> d, ret |-> [success |-> FALSE, message |-> "Book not found"]]
    ELSE IF d.books[book_id].status # "available"
    THEN [db |-> d, ret |-> [success |-> FALSE, message |-> "Book is not available"]]
    ELSE IF d.books[book_id].data.price # offered_price
    THEN [db |-> d, ret |-> [success |-> FALSE, message |-> "Price does not match"]]
    ELSE
    LET book_data == d.books[book_id].data
        customer_info == d.customers[customer_id]
        customer_data == customer_info.data
        vendor_id == book_data.vendor_id
        vendor_info == d.vendors[vendor_id]
        customer_principal == first_owner(customer_info.label)
        vendor_principal == first_owner(vendor_info.label)
        sold == [d EXCEPT !.books[book_id].status = "sold"]
        purchase_data ==
            [book_id |-> book_id, customer_id |-> customer_id,
             vendor_id |-> vendor_id, price |-> offered_price,
             timestamp |-> "timestamp_placeholder"]
        purchase_label ==
            Label({customer_principal, vendor_principal, "Marketplace"},
                  {customer_principal, vendor_principal, "Marketplace"})
        r == add_purchase(sold, purchase_data, purchase_label)
    IN [db |-> r.db,
        ret |-> [success |-> TRUE, message |-> "Purchase successful",
                 purchase_id |-> r.ret,
                 customer_confirmation |->
                     [purchase_id |-> r.ret, book_title |-> book_data.title,
                      price |-> offered_price, vendor |-> vendor_info.data.name,
                      status |-> "Confirmed"],
                 vendor_confirmation |->
                     [purchase_id |-> r.ret, book_title |-> book_data.title,
                      price |-> offered_price,
                      customer_name |-> customer_data.name,
                      customer_address |-> customer_data.address,
                      status |-> "Confirmed - Please ship to customer"]]]

\* BookMarketPlatform.set_marketing_opt_in
set_marketing_opt_in(d, customer_id, opt_in) ==
    IF customer_id \notin DOMAIN d.customers
    THEN [db |-> d, ret |-> [success |-> FALSE, message |-> "Customer not found"]]
    ELSE [db |-> [d EXCEPT !.customers[customer_id].marketing_opt_in = opt_in],
          ret |-> [success |-> TRUE, message |-> "Marketing preference updated",
                   opt_in |-> opt_in]]

----------------------------------------------------------------------------
(* marketplace.py : BookMarketplaceDB and BookMarketplace                  *)

\* BookMarketplace.__init__, with the customers and vendors that main() of
\* test.py registers
BookMarketplace ==
    [customers |->
        <<[name |-> "Alice Smith", address |-> "123 Main St, Copenhagen",
           opt_in_marketing |-> TRUE],
          [name |-> "Bob Johnson", address |-> "456 Oak Ave, Copenhagen",
           opt_in_marketing |-> FALSE]>>,
     vendors |-> <<[name |-> "Book Haven"], [name |-> "Academic Press"]>>,
     book_offers |-> <<>>,
     purchases |-> <<>>,
     next_offer_id |-> 1,
     next_purchase_id |-> 1]

\* The book_info dictionaries handed to offer_handler
MarketInputs ==
    { [title |-> <<"L", "o">>, author |-> <<"S">>, year |-> 2024,
       edition |-> "3rd", publisher |-> <<"A">>, condition |-> "new",
       description |-> <<"l">>, price |-> 2999],
      [title |-> <<"S", "e">>, author |-> <<"A">>, year |-> 2023,
       edition |-> "1st", publisher |-> <<"W">>, condition |-> "used",
       description |-> <<"d">>, price |-> 1999] }

MarketVendorIds == {1, 2, 9}

MarketCustomerIds == {1, 2, 9}

MarketPrices == {2999, 1999}

MarketOfferIds == 1..(MaxOffers + 1)

\* BookMarketplace.offer_handler
offer_handler(m, vendor_id, book_info) ==
    IF vendor_id \notin DOMAIN m.vendors
    THEN [mk |-> m, ret |-> [success |-> FALSE, message |-> "Vendor not found"]]
    ELSE LET offer_id == m.next_offer_id
             offer == [title |-> book_info.title, author |-> book_info.author,
                       year |-> book_info.year, edition |-> book_info.edition,
                       publisher |-> book_info.publisher,
                       condition |-> book_info.condition,
                       description |-> book_info.description,
                       price |-> book_info.price, vendor_id |-> vendor_id,
                       available |-> TRUE]
         IN [mk |-> [m EXCEPT !.next_offer_id = offer_id + 1,
                              !.book_offers = dict_set(m.book_offers, offer_id, offer)],
             ret |-> [success |-> TRUE, offer_id |-> offer_id]]

\* search_handler: the loop over the offers, in order of insertion
RECURSIVE market_search_loop(_, _, _)
market_search_loop(m, offer_id, query) ==
    IF offer_id \notin DOMAIN m.book_offers THEN <<>>
    ELSE LET offer == m.book_offers[offer_id]
             rest == market_search_loop(m, offer_id + 1, query)
         IN IF ~offer.available THEN rest
            ELSE IF \E field \in {"title", "author", "publisher", "description"} :
                        Contains(lower(query), lower(offer[field]))
                 THEN <<[offer_id |-> offer_id, title |-> offer.title,
                         author |-> offer.author, year |-> offer.year,
                         condition |-> offer.condition, price |-> offer.price]>>
                      \o rest
                 ELSE rest

\* BookMarketplace.search_handler
search_handler(m, query) == market_search_loop(m, 1, query)

\* BookMarketplace.purchase_handler
purchase_handler_marks_sold_first(m, customer_id, offer_id, price) ==
    IF customer_id \notin DOMAIN m.customers
    THEN [mk |-> m, ret |-> [success |-> FALSE, message |-> "Customer not found"]]
    ELSE IF offer_id \notin DOMAIN m.book_offers \/ ~m.book_offers[offer_id].available
    THEN [mk |-> m, ret |-> [success |-> FALSE, message |-> "Book offer not available"]]
    ELSE IF m.book_offers[offer_id].price # price
    THEN [mk |-> [m EXCEPT !.book_offers[offer_id].available = FALSE],
          ret |-> [success |-> FALSE, message |-> "Price does not match"]]
    ELSE
    LET purchase_id == m.next_purchase_id
        offer == m.book_offers[offer_id]
        customer == m.customers[customer_id]
        record == [offer_id |-> offer_id, customer_id |-> customer_id,
                   timestamp |-> "2025-05-04 12:00:00", price |-> price]
    IN [mk |-> [m EXCEPT !.book_offers[offer_id].available = FALSE,
                         !.next_purchase_id = purchase_id + 1,
                         !.purchases = dict_set(m.purchases, purchase_id, record)],
        ret |-> [success |-> TRUE,
                 vendor_confirmation |->
                     [purchase_id |-> purchase_id, book_title |-> offer.title,
                      customer_name |-> customer.name,
                      shipping_address |-> customer.address, price |-> price],
                 customer_confirmation |->
                     [purchase_id |-> purchase_id, book_title |-> offer.title,
                      price |-> price]]]

purchase_handler(m, customer_id, offer_id, price) ==
    IF customer_id \notin DOMAIN m.customers
    THEN [mk |-> m, ret |-> [success |-> FALSE, message |-> "Customer not found"]]
    ELSE IF offer_id \notin DOMAIN m.book_offers \/ ~m.book_offers[offer_id].available
    THEN [mk |-> m, ret |-> [success |-> FALSE, message |-> "Book offer not available"]]
    ELSE IF m.book_offers[offer_id].price # price
    THEN [mk |-> m, ret |-> [success |-> FALSE, message |-> "Price does not match"]]
    ELSE
    LET purchase_id == m.next_purchase_id
        offer == m.book_offers[offer_id]
        customer == m.customers[customer_id]
        record == [offer_id |-> offer_id, customer_id |-> customer_id,
                   timestamp |-> "2025-05-04 12:00:00", price |-> price]
    IN [mk |-> [m EXCEPT !.book_offers[offer_id].available = FALSE,
                         !.next_purchase_id = purchase_id + 1,
                         !.purchases = dict_set(m.purchases, purchase_id, record)],
        ret |-> [success |-> TRUE,
                 vendor_confirmation |->
                     [purchase_id |-> purchase_id, book_title |-> offer.title,
                      customer_name |-> customer.name,
                      shipping_address |-> customer.address, price |-> price],
                 customer_confirmation |->
                     [purchase_id |-> purchase_id, book_title |-> offer.title,
                      price |-> price]]]

\* BookMarketplace._infer_category
infer_category(offer) ==
    LET title == lower(offer.title)
    IN IF \/ Contains(<<"p","r","o","g","r","a","m","m","i","n","g">>, title)
          \/ Contains(<<"c","o","d","e">>, title)
          \/ Contains(<<"p","y","t","h","o","n">>, title)
       THEN "Computer Science"
       ELSE IF Contains(<<"h","i","s","t","o","r","y">>, title) THEN "History"
       ELSE IF \/ Contains(<<"n","o","v","e","l">>, title)
               \/ Contains(<<"f","i","c","t","i","o","n">>, title)
            THEN "Fiction"
       ELSE "General"

\* address.split(",")[-1].strip(), on the addresses the customers have
customer_location(address) ==
    CASE address = "123 Main St, Copenhagen" -> "Copenhagen"
      [] address = "456 Oak Ave, Copenhagen" -> "Copenhagen"
      [] OTHER -> address

\* get_marketing_data: what one purchase adds to marketing_data
marketing_entry_without_opt_in(m, purchase) ==
    LET customer == m.customers[purchase.customer_id]
        offer == m.book_offers[purchase.offer_id]
    IN <<[customer_name |-> customer.name,
          customer_location |-> customer_location(customer.address),
          book_title |-> offer.title, book_author |-> offer.author,
          book_category |-> infer_category(offer)]>>

marketing_entry(m, purchase) ==
    LET customer == m.customers[purchase.customer_id]
        offer == m.book_offers[purchase.offer_id]
    IN IF "opt_in_marketing" \in DOMAIN customer /\ customer.opt_in_marketing
       THEN <<[customer_name |-> customer.name,
               customer_location |-> customer_location(customer.address),
               book_title |-> offer.title, book_author |-> offer.author,
               book_category |-> infer_category(offer)]>>
       ELSE <<>>

\* get_marketing_data: the loop over the purchases, in order of insertion
RECURSIVE marketing_loop(_, _)
marketing_loop(m, purchase_id) ==
    IF purchase_id \notin DOMAIN m.purchases THEN <<>>
    ELSE marketing_entry(m, m.purchases[purchase_id])
            \o marketing_loop(m, purchase_id + 1)

\* BookMarketplace.get_marketing_data
get_marketing_data(m) == marketing_loop(m, 1)

----------------------------------------------------------------------------
(* The state machine: one client per behaviour, chosen by `variant`        *)

Threads == {1, 2}

ThreadsInit == [t \in Threads |-> [pc |-> "idle"]]

\* The free-standing SecureVariable objects a caller may construct
CellValues == {0, 1}

CellsInit == { SecureVariable(v, l) : v \in CellValues, l \in Levels }

\* The principals a caller of the label algebra builds labels from, the
\* labels over them, and the three label objects such a caller starts with
PrincipalNames == <<"Vendor1", "Mediator", "Customer1", "Customer2">>

AlgebraPrincipals == { PrincipalNames[i] : i \in 1..MaxPrincipals }

AlgebraLabels ==
    { Label(o, r) : o \in SUBSET AlgebraPrincipals, r \in SUBSET AlgebraPrincipals }

LabelHeaps == { <<a, b, c>> : a \in AlgebraLabels, b \in AlgebraLabels, c \in AlgebraLabels }

\* What an operation that may raise left behind: the exception or the value
Outcome(r) == IF r.raised THEN [raised |-> TRUE]
              ELSE [raised |-> FALSE, ret |-> r.ret]

InitAs(v) ==
    /\ variant = v
    /\ sv \in (IF v = "cell" THEN CellsInit ELSE {SecureVariable(0, PUBLIC)})
    /\ db = BookMarketDB
    /\ db2 = BookMarketDB
    /\ ni = [op |-> "init"]
    /\ pdb = BookMarketPlatform
    /\ mk = BookMarketplace
    /\ th = ThreadsInit
    /\ heap \in (IF v = "labels" THEN LabelHeaps ELSE {<<>>})
    /\ lastOp = [op |-> "init"]
    /\ writes = <<>>

\* "cell": a caller with a SecureVariable of its own;
\* "denning_db": callers of BookMarketDB's methods under any context;
\* "denning_handlers": callers of handle_offer, handle_search, handle_purchase;
\* "denning_internal": the handlers, and _update_availability_view called
\*     from outside purchase_book;
\* "platform": callers of BookMarketPlatform; "label": callers of SecurityLabel;
\* "marketplace": callers of BookMarketplace, one call at a time
Variants == {"cell", "denning_db", "denning_handlers", "denning_internal",
             "platform", "label", "marketplace"}

Init == \E v \in Variants : InitAs(v)

(* variant "cell" *)

GetValue(context_level) ==
    /\ variant = "cell"
    /\ LET r == get_value(sv, context_level)
       IN lastOp' = [op |-> "get_value", before |-> sv,
                     context_level |-> context_level,
                     out |-> IF r.raised THEN [raised |-> TRUE]
                             ELSE [raised |-> FALSE, ret |-> r.value]]
    /\ writes' = <<>>
    /\ UNCHANGED <<variant, heap, sv, db, db2, ni, pdb, mk, th>>

SetValue(new_value, source_level, context_level) ==
    /\ variant = "cell"
    /\ LET r == set_value(sv, new_value, source_level, context_level)
       IN /\ sv' = r.cell
          /\ lastOp' = [op |-> "set_value", before |-> sv,
                        new_value |-> new_value, source_level |-> source_level,
                        context_level |-> context_level,
                        out |-> [raised |-> r.raised]]
          /\ writes' = IF r.raised THEN <<>>
                       ELSE <<Write(<<"sv">>, sv, "set_value", source_level, context_level)>>
    /\ UNCHANGED <<variant, heap, db, db2, ni, pdb, mk, th>>

(* variants "denning_db", "denning_handlers" and "denning_internal" *)

\* An operation of BookMarketDB or one of the module's handlers has run
DenningStep(op, args, context_level, r, out) ==
    /\ Len(r.db.book_offers.value) <= MaxOffers
    /\ Len(r.db.purchases.value) <= MaxPurchases
    /\ db' = r.db
    /\ writes' = r.writes
    /\ lastOp' = [op |-> op, args |-> args, context_level |-> context_level,
                  out |-> out]
    /\ UNCHANGED <<variant, heap, sv, db2, ni, pdb, mk, th>>

AddBookOffer(offer_data, context_level) ==
    /\ variant = "denning_db"
    /\ LET r == add_book_offer(db, offer_data, context_level)
       IN DenningStep("add_book_offer", <<offer_data>>, context_level, r, Outcome(r))

SearchBooks(query, context_level) ==
    /\ variant = "denning_db"
    /\ LET r == search_books(db, query, context_level)
       IN DenningStep("search_books", <<query>>, context_level, r, Outcome(r))

PurchaseBook(book_id, customer_id, price_check, context_level) ==
    /\ variant = "denning_db"
    /\ LET r == purchase_book(db, book_id, customer_id, price_check, context_level)
       IN DenningStep("purchase_book", <<book_id, customer_id, price_check>>,
                      context_level, r, Outcome(r))

HandleOffer(offer_data) ==
    /\ variant \in {"denning_handlers", "denning_internal"}
    /\ LET r == handle_offer(db, offer_data)
       IN DenningStep("handle_offer", <<offer_data>>, VENDOR, r,
                      [raised |-> FALSE, ret |-> r.ret])

HandleSearch(search_query) ==
    /\ variant \in {"denning_handlers", "denning_internal"}
    /\ LET r == handle_search(db, search_query)
       IN DenningStep("handle_search", <<search_query>>, PUBLIC, r,
                      [raised |-> FALSE, ret |-> r.ret])

HandlePurchase(book_id, customer_id, price) ==
    /\ variant \in {"denning_handlers", "denning_internal"}
    /\ variant = "denning_internal" => customer_id \in CustomerIds
    /\ LET r == handle_purchase(db, book_id, customer_id, price)
       IN DenningStep("handle_purchase", <<book_id, customer_id, price>>, CUSTOMER, r,
                      [raised |-> FALSE, ret |-> r.ret])

\* _update_availability_view called from outside purchase_book
UpdateAvailabilityView(book_index, new_status, context_level) ==
    /\ variant = "denning_internal"
    /\ LET r == update_availability_view(db, book_index, new_status, context_level)
       IN DenningStep("_update_availability_view", <<book_index, new_status>>,
                      context_level, r, Outcome(r))

(* variant "platform" *)

PlatformStep(op, args, r) ==
    /\ variant = "platform"
    /\ r.db.next_book_id <= MaxOffers + 1
    /\ pdb' = r.db
    /\ lastOp' = [op |-> op, args |-> args, ret |-> r.ret]
    /\ writes' = <<>>
    /\ UNCHANGED <<variant, heap, sv, db, db2, ni, mk, th>>

PlatformHandleOffer(vendor_id, book_data) ==
    PlatformStep("handle_offer", <<vendor_id, book_data>>,
                 platform_handle_offer(pdb, vendor_id, book_data))

PlatformHandleSearch(customer_id, query) ==
    PlatformStep("handle_search", <<customer_id, query>>,
                 platform_handle_search(pdb, customer_id, query))

PlatformHandlePurchase(customer_id, book_id, offered_price) ==
    PlatformStep("handle_purchase", <<customer_id, book_id, offered_price>>,
                 platform_handle_purchase(pdb, customer_id, book_id, offered_price))

SetMarketingOptIn(customer_id, opt_in) ==
    PlatformStep("set_marketing_opt_in", <<customer_id, opt_in>>,
                 set_marketing_opt_in(pdb, customer_id, opt_in))

(* variant "label": each behaviour applies one operation of SecurityLabel *)

LabelPrincipals == {"Alice", "BookStore", "Marketplace"}

Labels == { Label(o, r) : o \in SUBSET LabelPrincipals, r \in SUBSET LabelPrincipals }

ReaderArgs == {None} \cup { Some(r) : r \in SUBSET LabelPrincipals }

Declassify(self, auth_principal, new_readers) ==
    /\ variant = "label"
    /\ lastOp.op = "init"
    /\ lastOp' = [op |-> "declassify", self |-> self,
                  auth_principal |-> auth_principal, new_readers |-> new_readers,
                  out |-> declassify(self, auth_principal, new_readers)]
    /\ writes' = <<>>
    /\ UNCHANGED <<variant, heap, sv, db, db2, ni, pdb, mk, th>>

(* variant "marketplace" *)

MarketStep(op, args, r) ==
    /\ variant = "marketplace"
    /\ r.mk.next_offer_id <= MaxOffers + 1
    /\ mk' = r.mk
    /\ lastOp' = [op |-> op, args |-> args, ret |-> r.ret]
    /\ writes' = <<>>
    /\ UNCHANGED <<variant, heap, sv, db, db2, ni, pdb, th>>

OfferHandler(vendor_id, book_info) ==
    MarketStep("offer_handler", <<vendor_id, book_info>>,
               offer_handler(mk, vendor_id, book_info))

SearchHandler(query) ==
    MarketStep("search_handler", <<query>>,
               [mk |-> mk, ret |-> search_handler(mk, query)])

PurchaseHandler(customer_id, offer_id, price) ==
    MarketStep("purchase_handler", <<customer_id, offer_id, price>>,
               purchase_handler(mk, customer_id, offer_id, price))

GetMarketingData ==
    MarketStep("get_marketing_data", <<>>,
               [mk |-> mk, ret |-> get_marketing_data(mk)])

Next ==
    \/ \E c \in Levels : GetValue(c)
    \/ \E v \in CellValues, s \in Levels, c \in Levels : SetValue(v, s, c)
    \/ \E o \in OfferInputs, c \in Levels : AddBookOffer(o, c)
    \/ \E q \in Queries, c \in Levels : SearchBooks(q, c)
    \/ \E b \in BookIds, k \in CustomerIds, p \in Prices, c \in Levels :
          PurchaseBook(b, k, p, c)
    \/ \E o \in OfferInputs : HandleOffer(o)
    \/ \E q \in Queries : HandleSearch(q)
    \/ \E b \in BookIds, k \in HandlerCustomerIds, p \in Prices : HandlePurchase(b, k, p)
    \/ \E i \in -1..MaxOffers, st \in BOOLEAN, c \in Levels :
          UpdateAvailabilityView(i, st, c)
    \/ \E v \in PlatformVendorIds, b \in BookInputs : PlatformHandleOffer(v, b)
    \/ \E c \in PlatformCustomerIds, q \in PlatformQueries : PlatformHandleSearch(c, q)
    \/ \E c \in PlatformCustomerIds, b \in 1..(MaxOffers + 1), p \in PlatformPrices :
          PlatformHandlePurchase(c, b, p)
    \/ \E c \in PlatformCustomerIds, o \in BOOLEAN : SetMarketingOptIn(c, o)
    \/ \E l \in Labels, a \in LabelPrincipals, r \in ReaderArgs : Declassify(l, a, r)
    \/ \E v \in MarketVendorIds, b \in MarketInputs : OfferHandler(v, b)
    \/ \E q \in Queries : SearchHandler(q)
    \/ \E c \in MarketCustomerIds, o \in MarketOfferIds, p \in MarketPrices :
          PurchaseHandler(c, o, p)
    \/ GetMarketingData

Spec == Init /\ [][Next]_vars

----------------------------------------------------------------------------
(* Two threads inside BookMarketplace.purchase_handler, one statement of   *)
(* the handler per step; `self.next_purchase_id += 1` loads, then stores.  *)

InitThreads == InitAs("threads")

\* offer_handler, run to completion before any thread has started
ThreadsOffer(vendor_id, book_info) ==
    /\ variant = "threads"
    /\ \A t \in Threads : th[t].pc = "idle"
    /\ LET r == offer_handler(mk, vendor_id, book_info)
       IN /\ r.mk.next_offer_id <= MaxOffers + 1
          /\ mk' = r.mk
    /\ UNCHANGED <<variant, heap, sv, db, db2, ni, pdb, th, lastOp, writes>>

ThreadStep(t, frame, m) ==
    /\ th' = [th EXCEPT ![t] = frame]
    /\ mk' = m
    /\ UNCHANGED <<variant, heap, sv, db, db2, ni, pdb, lastOp, writes>>

Return(t, ret) == [th[t] EXCEPT !.pc = "done", !.ret = ret]

Goto(t, pc) == [th[t] EXCEPT !.pc = pc]

\* purchase_handler(customer_id, offer_id, price) is called by thread t
PurchaseCall(t, customer_id, offer_id, price) ==
    /\ variant = "threads"
    /\ th[t].pc = "idle"
    /\ ThreadStep(t, [pc |-> "L102", customer_id |-> customer_id,
                      offer_id |-> offer_id, price |-> price,
                      available_at_call |->
                          /\ offer_id \in DOMAIN mk.book_offers
                          /\ mk.book_offers[offer_id].available,
                      purchase_id |-> 0, loaded |-> 0,
                      ret |-> [success |-> FALSE, message |-> "running"]], mk)

\* lines 102-103
PurchaseCheckCustomer(t) ==
    /\ th[t].pc = "L102"
    /\ ThreadStep(t, IF th[t].customer_id \notin DOMAIN mk.customers
                     THEN Return(t, [success |-> FALSE, message |-> "Customer not found"])
                     ELSE Goto(t, "L106"), mk)

\* lines 106-107
PurchaseCheckOffer(t) ==
    /\ th[t].pc = "L106"
    /\ ThreadStep(t, IF \/ th[t].offer_id \notin DOMAIN mk.book_offers
                        \/ ~mk.book_offers[th[t].offer_id].available
                     THEN Return(t, [success |-> FALSE,
                                     message |-> "Book offer not available"])
                     ELSE Goto(t, "L110"), mk)

\* lines 110-111
PurchaseCheckPrice(t) ==
    /\ th[t].pc = "L110"
    /\ ThreadStep(t, IF mk.book_offers[th[t].offer_id].price # th[t].price
                     THEN Return(t, [success |-> FALSE, message |-> "Price does not match"])
                     ELSE Goto(t, "L114"), mk)

\* line 114
PurchaseMarkSold(t) ==
    /\ th[t].pc = "L114"
    /\ ThreadStep(t, Goto(t, "L119"),
                  [mk EXCEPT !.book_offers[th[t].offer_id].available = FALSE])

\* line 119
PurchaseReadId(t) ==
    /\ th[t].pc = "L119"
    /\ ThreadStep(t, [th[t] EXCEPT !.pc = "L120", !.purchase_id = mk.next_purchase_id], mk)

\* line 120, the load
PurchaseLoadCounter(t) ==
    /\ th[t].pc = "L120"
    /\ ThreadStep(t, [th[t] EXCEPT !.pc = "L120_store", !.loaded = mk.next_purchase_id], mk)

\* line 120, the store
PurchaseStoreCounter(t) ==
    /\ th[t].pc = "L120_store"
    /\ ThreadStep(t, Goto(t, "L122"), [mk EXCEPT !.next_purchase_id = th[t].loaded + 1])

\* lines 122-127
PurchaseRecord(t) ==
    /\ th[t].pc = "L122"
    /\ ThreadStep(t, Goto(t, "L131"),
                  [mk EXCEPT !.purchases =
                      dict_set(mk.purchases, th[t].purchase_id,
                               [offer_id |-> th[t].offer_id,
                                customer_id |-> th[t].customer_id,
                                timestamp |-> "2025-05-04 12:00:00",
                                price |-> th[t].price])])

\* lines 131-150
PurchaseReturn(t) ==
    /\ th[t].pc = "L131"
    /\ LET offer == mk.book_offers[th[t].offer_id]
           customer == mk.customers[th[t].customer_id]
       IN ThreadStep(t, Return(t,
              [success |-> TRUE,
               vendor_confirmation |->
                   [purchase_id |-> th[t].purchase_id, book_title |-> offer.title,
                    customer_name |-> customer.name,
                    shipping_address |-> customer.address, price |-> th[t].price],
               customer_confirmation |->
                   [purchase_id |-> th[t].purchase_id, book_title |-> offer.title,
                    price |-> th[t].price]]), mk)

NextThreads ==
    \/ \E v \in MarketVendorIds, b \in MarketInputs : ThreadsOffer(v, b)
    \/ \E t \in Threads, c \in MarketCustomerIds, o \in MarketOfferIds,
          p \in MarketPrices : PurchaseCall(t, c, o, p)
    \/ \E t \in Threads : PurchaseCheckCustomer(t)
    \/ \E t \in Threads : PurchaseCheckOffer(t)
    \/ \E t \in Threads : PurchaseCheckPrice(t)
    \/ \E t \in Threads : PurchaseMarkSold(t)
    \/ \E t \in Threads : PurchaseReadId(t)
    \/ \E t \in Threads : PurchaseLoadCounter(t)
    \/ \E t \in Threads : PurchaseStoreCounter(t)
    \/ \E t \in Threads : PurchaseRecord(t)
    \/ \E t \in Threads : PurchaseReturn(t)

SpecThreads == InitThreads /\ [][NextThreads]_vars

----------------------------------------------------------------------------
(* Two threads inside BookMarketDB.add_book_offer on the same store. The   *)
(* method takes no lock; a thread may be suspended at any of the calls it  *)
(* makes, so the steps are: the context check, the construction of         *)
(* labeled_offer (which reads len(self.book_offers.value)), the append,    *)
(* and the return.                                                         *)

InitOffers == InitAs("offers")

OfferStep(t, frame, d) ==
    /\ variant = "offers"
    /\ th' = [th EXCEPT ![t] = frame]
    /\ db' = d
    /\ UNCHANGED <<variant, heap, sv, db2, ni, pdb, mk, lastOp, writes>>

\* add_book_offer(offer_data, context_level) is called by thread t
AddOfferCall(t, offer_data, context_level) ==
    /\ th[t].pc = "idle"
    /\ OfferStep(t, [pc |-> "L88", offer_data |-> offer_data,
                     context_level |-> context_level], db)

\* lines 88-89
AddOfferCheck(t) ==
    /\ th[t].pc = "L88"
    /\ OfferStep(t, IF ~can_flow(VENDOR, th[t].context_level)
                    THEN Goto(t, "raised")
                    ELSE Goto(t, "L92"), db)

\* lines 92-106: the id is made from the length the list has now
AddOfferLabel(t) ==
    /\ th[t].pc = "L92"
    /\ OfferStep(t, [pc |-> "L109", offer_data |-> th[t].offer_data,
                     context_level |-> th[t].context_level,
                     labeled_offer |-> labeled_offer(db, th[t].offer_data)], db)

\* lines 109-111: the list object is appended to in place; assigning it
\* back to .value changes nothing
AddOfferAppend(t) ==
    /\ th[t].pc = "L109"
    /\ OfferStep(t, Goto(t, "L113"),
                 [db EXCEPT !.book_offers.value = Append(@, th[t].labeled_offer)])

\* line 113
AddOfferReturn(t) ==
    /\ th[t].pc = "L113"
    /\ OfferStep(t, [pc |-> "done", offer_data |-> th[t].offer_data,
                     context_level |-> th[t].context_level,
                     labeled_offer |-> th[t].labeled_offer,
                     ret |-> th[t].labeled_offer.id.value], db)

NextOffers ==
    \/ \E t \in Threads, o \in OfferInputs, c \in Levels : AddOfferCall(t, o, c)
    \/ \E t \in Threads : AddOfferCheck(t)
    \/ \E t \in Threads : AddOfferLabel(t)
    \/ \E t \in Threads : AddOfferAppend(t)
    \/ \E t \in Threads : AddOfferReturn(t)

SpecOffers == InitOffers /\ [][NextOffers]_vars

----------------------------------------------------------------------------
(* Two BookMarketDB stores side by side: the same calls of the handlers    *)
(* reach both, and PLATFORM-level data is written to either one alone.     *)

InitPair == InitAs("pair")

\* The customers dictionaries a PLATFORM-level writer may store
CustomerDicts ==
    { CustomersInit,
      [CustomersInit EXCEPT !["c1"].address = "9 High St"],
      [c \in {"c2"} |-> CustomersInit[c]] }

\* What a context below PLATFORM may read of a store: its PUBLIC cells
LowView(d) ==
    [i \in 1..Len(d.book_offers.value) |->
        [f \in OfferFields \ {"_available"} |-> d.book_offers.value[i][f]]]

PairStep(op, args, r1, r2) ==
    /\ variant = "pair"
    /\ Len(r1.db.book_offers.value) <= MaxPairOffers
    /\ Len(r1.db.purchases.value) <= MaxPurchases
    /\ Len(r2.db.purchases.value) <= MaxPurchases
    /\ db' = r1.db
    /\ db2' = r2.db
    /\ ni' = [op |-> op, args |-> args, low_equal_before |-> LowView(db) = LowView(db2),
              ret1 |-> r1.ret, ret2 |-> r2.ret]
    /\ UNCHANGED <<variant, heap, sv, pdb, mk, th, lastOp, writes>>

\* handle_offer, the same call on both stores
PairOffer(offer_data) ==
    PairStep("handle_offer", <<offer_data>>,
             handle_offer(db, offer_data), handle_offer(db2, offer_data))

\* handle_search, the same call on both stores
PairSearch(search_query) ==
    PairStep("handle_search", <<search_query>>,
             handle_search(db, search_query), handle_search(db2, search_query))

\* handle_purchase, the same call on both stores
PairPurchase(book_id, customer_id, price) ==
    PairStep("handle_purchase", <<book_id, customer_id, price>>,
             handle_purchase(db, book_id, customer_id, price),
             handle_purchase(db2, book_id, customer_id, price))

\* customers.set_value(dict, PLATFORM, PLATFORM) on one store
PairSetCustomers(k, dict) ==
    /\ variant = "pair"
    /\ LET d == IF k = 1 THEN db ELSE db2
           w == set_value(d.customers, dict, PLATFORM, PLATFORM)
           after == [d EXCEPT !.customers = w.cell]
       IN /\ db' = IF k = 1 THEN after ELSE db
          /\ db2' = IF k = 2 THEN after ELSE db2
    /\ ni' = [op |-> "set_value", args |-> <<k, "customers">>]
    /\ UNCHANGED <<variant, heap, sv, pdb, mk, th, lastOp, writes>>

\* offers[i]["_available"].set_value(status, PLATFORM, PLATFORM) on one store
PairSetAvailable(k, i, status) ==
    /\ variant = "pair"
    /\ LET d == IF k = 1 THEN db ELSE db2
       IN /\ i \in 1..Len(d.book_offers.value)
          /\ LET w == set_value(d.book_offers.value[i]._available, status,
                                PLATFORM, PLATFORM)
                 after == [d EXCEPT !.book_offers.value[i]._available = w.cell]
             IN /\ db' = IF k = 1 THEN after ELSE db
                /\ db2' = IF k = 2 THEN after ELSE db2
    /\ ni' = [op |-> "set_value", args |-> <<k, "_available">>]
    /\ UNCHANGED <<variant, heap, sv, pdb, mk, th, lastOp, writes>>

NextPair ==
    \/ \E o \in OfferInputs : PairOffer(o)
    \/ \E q \in Queries : PairSearch(q)
    \/ \E b \in BookIds, k \in CustomerIds, p \in Prices : PairPurchase(b, k, p)
    \/ \E k \in 1..2, dict \in CustomerDicts : PairSetCustomers(k, dict)
    \/ \E k \in 1..2, i \in 1..MaxPairOffers, st \in BOOLEAN : PairSetAvailable(k, i, st)

SpecPair == InitPair /\ [][NextPair]_vars

----------------------------------------------------------------------------
(* A caller of the label algebra: it holds three SecurityLabel objects,    *)
(* heap[1], heap[2] and heap[3], and applies one operation to them         *)

InitLabels == InitAs("labels")

LabelStep(op, args, h, out) ==
    /\ variant = "labels"
    /\ lastOp.op = "init"
    /\ heap' = h
    /\ lastOp' = [op |-> op, args |-> args, before |-> heap, out |-> out]
    /\ UNCHANGED <<variant, sv, db, db2, ni, pdb, mk, th, writes>>

\* heap[1].flows_to(heap[2])
LabelFlowsTo ==
    LabelStep("flows_to", <<1, 2>>, heap,
              [raised |-> FALSE, ret |-> flows_to(heap[1], heap[2])])

\* heap[1].join(heap[2])
LabelJoin ==
    LET r == call_join(heap, 1, 2)
    IN LabelStep("join", <<1, 2>>, r.heap, [raised |-> FALSE, ret |-> r.ret])

\* heap[1].meet(heap[2])
LabelMeet ==
    LET r == call_meet(heap, 1, 2)
    IN LabelStep("meet", <<1, 2>>, r.heap, [raised |-> FALSE, ret |-> r.ret])

\* heap[1].declassify(auth_principal) and
\* heap[1].declassify(auth_principal, heap[3].readers)
LabelDeclassify(auth_principal, new_readers) ==
    LET r == call_declassify(heap, 1, auth_principal, new_readers)
    IN LabelStep("declassify", <<1, auth_principal, new_readers>>, r.heap,
                 IF r.raised THEN [raised |-> TRUE]
                 ELSE [raised |-> FALSE, ret |-> r.ret])

NextLabels ==
    \/ LabelFlowsTo
    \/ LabelJoin
    \/ LabelMeet
    \/ \E p \in AlgebraPrincipals, n \in {None, Some(heap[3].readers)} :
          LabelDeclassify(p, n)

SpecLabels == InitLabels /\ [][NextLabels]_vars

----------------------------------------------------------------------------
(* Claims                                                                  *)

\* C1: a read (SecureVariable.get_value) of a cell labeled L under context C
\* returns the stored value if and only if L <= C, raises SecurityException
\* otherwise, and in both cases leaves the cell's value and label as they were.
C1_ReadIffFlows ==
    lastOp.op = "get_value" =>
        /\ (~lastOp.out.raised) <=>
               (lastOp.before.security_level <= lastOp.context_level)
        /\ (~lastOp.out.raised) => (lastOp.out.ret = lastOp.before.value)
        /\ sv = lastOp.before

\* The read-up of test_system: a PLATFORM cell read under PUBLIC is refused
C1_Witness ==
    /\ lastOp.op = "get_value"
    /\ lastOp.before.security_level = PLATFORM
    /\ lastOp.context_level = PUBLIC
    /\ lastOp.out.raised

\* The context under which a caller of BookMarketPlatform.handle_search
\* reads: the label of the customer record, or the empty label SecurityLabel()
\* of an anonymous or unknown caller
callerContext(customer_id) ==
    IF customer_id \in DOMAIN pdb.customers
    THEN pdb.customers[customer_id].label
    ELSE SecurityLabel(None, None)

\* C2: every book whose fields BookMarketPlatform.handle_search returns has a
\* label that flows to the context of the caller of the search.
C2_SearchRespectsLabels ==
    (variant = "platform" /\ lastOp.op = "handle_search") =>
        \A k \in 1..Len(lastOp.ret.results) :
            flows_to(pdb.books[lastOp.ret.results[k].book_id].label,
                     callerContext(lastOp.args[1]))

\* C3: non-interference. When two stores agree on everything a context below
\* PLATFORM may read, the same handle_search (PUBLIC) or handle_purchase
\* (CUSTOMER) call returns the same result on both.
C3_NonInterference ==
    (ni.op \in {"handle_search", "handle_purchase"} /\ ni.low_equal_before) =>
        ni.ret1 = ni.ret2

\* The purchase records stored for an offer of BookMarketplace
PurchasesOf(offer_id) ==
    { q \in DOMAIN mk.purchases : mk.purchases[q].offer_id = offer_id }

\* C4: two purchase_handler calls that were both made while the same offer
\* was available, by registered customers at the listed price, end with
\* exactly one of them successful and exactly one purchase record of the offer.
C4_ExactlyOnePurchaseSucceeds ==
    \A t1 \in Threads, t2 \in Threads :
        ( /\ t1 # t2
          /\ th[t1].pc = "done" /\ th[t2].pc = "done"
          /\ th[t1].offer_id = th[t2].offer_id
          /\ th[t1].available_at_call /\ th[t2].available_at_call
          /\ \A t \in {t1, t2} :
                /\ th[t].customer_id \in DOMAIN mk.customers
                /\ th[t].price = mk.book_offers[th[t].offer_id].price )
        => /\ th[t1].ret.success # th[t2].ret.success
           /\ Cardinality(PurchasesOf(th[t1].offer_id)) = 1

\* C5: declassify is refused unless every owner of the label consents: a
\* request by one principal succeeds only if that principal is the whole
\* owner set.
C5_DeclassifyNeedsAllOwners ==
    (lastOp.op = "declassify" /\ ~lastOp.out.raised) =>
        lastOp.self.owners = {lastOp.auth_principal}

C7_NoWriteBypassesSetValue ==
    \A k \in 1..Len(writes) :
        /\ writes[k].via = "set_value"
        /\ writes[k].source_level <= writes[k].security_level
        /\ writes[k].context_level <= writes[k].security_level

\* C8: a write (SecureVariable.set_value) of v with source level S under
\* context C to a cell labeled L succeeds, leaving v as the cell's value, if
\* and only if S <= L and C <= L; otherwise it raises SecurityException.
C8_WriteIffBothFlow ==
    lastOp.op = "set_value" =>
        /\ (~lastOp.out.raised) <=>
              /\ lastOp.source_level <= lastOp.before.security_level
              /\ lastOp.context_level <= lastOp.before.security_level
        /\ (~lastOp.out.raised) => (sv.value = lastOp.new_value)

\* A successful write replaces the value
C8_Witness ==
    /\ lastOp.op = "set_value"
    /\ ~lastOp.out.raised
    /\ lastOp.new_value # lastOp.before.value
    /\ sv.value = lastOp.new_value

\* C9: a set_value that raises leaves the cell's (value, label) pair as it
\* was before the call.
C9_FailedWriteChangesNothing ==
    (lastOp.op = "set_value" /\ lastOp.out.raised) => (sv = lastOp.before)

\* A refused write whose source flows but whose writer's context does not
C9_Witness ==
    /\ lastOp.op = "set_value"
    /\ lastOp.out.raised
    /\ lastOp.new_value # lastOp.before.value
    /\ lastOp.source_level <= lastOp.before.security_level
    /\ lastOp.context_level > lastOp.before.security_level

\* C10: no step changes the label of a cell or of a stored book record: the
\* free-standing cell, the four cells of BookMarketDB, every cell of every
\* offer and every book of the platform keep the label they had.
C10_LabelsNeverChange ==
    [][ /\ sv'.security_level = sv.security_level
        /\ \A c \in DOMAIN db : db'[c].security_level = db[c].security_level
        /\ \A i \in 1..Len(db.book_offers.value) :
              /\ i <= Len(db'.book_offers.value)
              /\ \A f \in OfferFields :
                    db'.book_offers.value[i][f].security_level =
                        db.book_offers.value[i][f].security_level
        /\ \A b \in DOMAIN pdb.books :
              /\ b \in DOMAIN pdb'.books
              /\ pdb'.books[b].label = pdb.books[b].label ]_vars

\* A purchase has written the PLATFORM cell _available of an offer through
\* set_value, and the cell is still labeled PLATFORM
C10_Witness ==
    /\ lastOp.op = "handle_purchase"
    /\ variant = "denning_handlers"
    /\ lastOp.out.ret.success
    /\ \E k \in 1..Len(writes) :
          /\ writes[k].via = "set_value"
          /\ writes[k].cell[1] = "book_offers"
          /\ Len(writes[k].cell) = 3
          /\ db.book_offers.value[writes[k].cell[2]]._available.security_level = PLATFORM
          /\ ~db.book_offers.value[writes[k].cell[2]]._available.value

\* C11: declassify never changes the label it is called on. After a call,
\* granted or denied, every label object that existed before has the owners
\* and readers it had; a granted call returns an object that did not exist
\* before, and a denied call creates none.
C11_DeclassifyLeavesLabelAlone ==
    (variant = "labels" /\ lastOp.op = "declassify") =>
        /\ \A i \in 1..Len(lastOp.before) : heap[i] = lastOp.before[i]
        /\ lastOp.out.raised => heap = lastOp.before
        /\ (~lastOp.out.raised) =>
              /\ lastOp.out.ret \notin 1..Len(lastOp.before)
              /\ lastOp.out.ret \in 1..Len(heap)

\* An owner has declassified to readers other than the label's own, and the
\* label still has its own readers
C11_Witness ==
    /\ variant = "labels"
    /\ lastOp.op = "declassify"
    /\ ~lastOp.out.raised
    /\ lastOp.args[3] # None
    /\ heap[lastOp.out.ret].readers = lastOp.args[3][1]
    /\ heap[lastOp.out.ret].readers # heap[1].readers
    /\ heap[1] = lastOp.before[1]

\* C12: source.flows_to(target) is true if and only if target.owners is a
\* subset of source.owners and source.readers is a subset of target.readers.
C12_FlowsToRule ==
    (variant = "labels" /\ lastOp.op = "flows_to") =>
        (lastOp.out.ret <=>
            /\ heap[2].owners \subseteq heap[1].owners
            /\ heap[1].readers \subseteq heap[2].readers)

\* A flow to a label with fewer owners and more readers
C12_Witness ==
    /\ variant = "labels"
    /\ lastOp.op = "flows_to"
    /\ lastOp.out.ret
    /\ heap[2].owners # heap[1].owners
    /\ heap[2].readers # heap[1].readers

\* C13: the label <{Vendor1}, {Vendor1, Mediator}> flows to a context whose
\* readers are {Vendor1}, and does not flow to a context whose readers are
\* the empty set.
C13_VendorReadsOwnRecord ==
    ( /\ variant = "labels" /\ lastOp.op = "flows_to"
      /\ heap[1] = Label({"Vendor1"}, {"Vendor1", "Mediator"}) ) =>
        /\ (heap[2].readers = {"Vendor1"} /\ heap[2].owners \subseteq {"Vendor1"})
              => lastOp.out.ret
        /\ (heap[2].readers = {}) => ~lastOp.out.ret

\* C14: join(a, b) has the owners a and b share and the readers of either,
\* so its readers contain those of a and those of b; a and b are as they
\* were.
C14_JoinRule ==
    (variant = "labels" /\ lastOp.op = "join") =>
        LET a == lastOp.before[1]
            b == lastOp.before[2]
            j == heap[lastOp.out.ret]
        IN /\ j.owners = a.owners \cap b.owners
           /\ j.readers = a.readers \cup b.readers
           /\ a.readers \subseteq j.readers /\ b.readers \subseteq j.readers
           /\ \A i \in 1..Len(lastOp.before) : heap[i] = lastOp.before[i]

\* A join of two labels neither of which has the other's readers or owners
C14_Witness ==
    /\ variant = "labels"
    /\ lastOp.op = "join"
    /\ ~(heap[1].readers \subseteq heap[2].readers)
    /\ ~(heap[2].readers \subseteq heap[1].readers)
    /\ ~(heap[1].owners \subseteq heap[2].owners)
    /\ ~(heap[2].owners \subseteq heap[1].owners)
    /\ heap[lastOp.out.ret].readers = heap[1].readers \cup heap[2].readers

\* C15: meet(a, b) has the owners of either and the readers a and b share.
C15_MeetRule ==
    (variant = "labels" /\ lastOp.op = "meet") =>
        LET a == lastOp.before[1]
            b == lastOp.before[2]
            m == heap[lastOp.out.ret]
        IN /\ m.owners = a.owners \cup b.owners
           /\ m.readers = a.readers \cap b.readers

\* A meet of two labels neither of which has the other's readers or owners
C15_Witness ==
    /\ variant = "labels"
    /\ lastOp.op = "meet"
    /\ ~(heap[1].readers \subseteq heap[2].readers)
    /\ ~(heap[2].readers \subseteq heap[1].readers)
    /\ ~(heap[1].owners \subseteq heap[2].owners)
    /\ ~(heap[2].owners \subseteq heap[1].owners)
    /\ heap[lastOp.out.ret].owners = heap[1].owners \cup heap[2].owners

\* C16: flows_to on labels and can_flow on levels are partial orders:
\* reflexive, transitive, and antisymmetric (labels that flow to each other
\* have equal owners and equal readers; levels that do are equal).
C16_FlowsToIsPartialOrder ==
    variant = "labels" =>
        LET a == heap[1]
            b == heap[2]
            c == heap[3]
        IN /\ flows_to(a, a)
           /\ (flows_to(a, b) /\ flows_to(b, c)) => flows_to(a, c)
           /\ (flows_to(a, b) /\ flows_to(b, a)) =>
                 (a.owners = b.owners /\ a.readers = b.readers)
           /\ lastOp.op = "flows_to" =>
                 (lastOp.out.ret <=> flows_to(a, b))
           /\ \A x \in Levels, y \in Levels, z \in Levels :
                 /\ can_flow(x, x)
                 /\ (can_flow(x, y) /\ can_flow(y, z)) => can_flow(x, z)
                 /\ (can_flow(x, y) /\ can_flow(y, x)) => x = y

\* A chain of three different labels, and the flow of the first to the second
\* has been asked for
C16_Witness ==
    /\ variant = "labels"
    /\ lastOp.op = "flows_to"
    /\ lastOp.out.ret
    /\ heap[1] # heap[2] /\ heap[2] # heap[3]
    /\ flows_to(heap[2], heap[3])
    /\ flows_to(heap[1], heap[3])

\* C17: join and meet are commutative, associative and idempotent, their
\* results compared by owners and readers.
C17_JoinMeetLaws ==
    variant = "labels" =>
        LET a == heap[1]
            b == heap[2]
            c == heap[3]
        IN /\ join(a, b) = join(b, a)
           /\ join(join(a, b), c) = join(a, join(b, c))
           /\ join(a, a) = a
           /\ meet(a, b) = meet(b, a)
           /\ meet(meet(a, b), c) = meet(a, meet(b, c))
           /\ meet(a, a) = a
           /\ lastOp.op = "join" => heap[lastOp.out.ret] = join(b, a)
           /\ lastOp.op = "meet" => heap[lastOp.out.ret] = meet(b, a)

\* A join of two labels with different owners and different readers, next to
\* a third label that is neither
C17_Witness ==
    /\ variant = "labels"
    /\ lastOp.op = "join"
    /\ heap[1].owners # heap[2].owners
    /\ heap[1].readers # heap[2].readers
    /\ heap[3] \notin {heap[1], heap[2], heap[lastOp.out.ret]}

\* C18: join(a, b) is an upper bound of a and b and meet(a, b) a lower bound
\* under flows_to.
C18_JoinAboveMeetBelow ==
    variant = "labels" =>
        LET a == heap[1]
            b == heap[2]
        IN /\ flows_to(a, join(a, b)) /\ flows_to(b, join(a, b))
           /\ flows_to(meet(a, b), a) /\ flows_to(meet(a, b), b)
           /\ lastOp.op = "join" =>
                 /\ flows_to(a, heap[lastOp.out.ret])
                 /\ flows_to(b, heap[lastOp.out.ret])
           /\ lastOp.op = "meet" =>
                 /\ flows_to(heap[lastOp.out.ret], a)
                 /\ flows_to(heap[lastOp.out.ret], b)

\* A meet of two labels neither of which flows to the other
C18_Witness ==
    /\ variant = "labels"
    /\ lastOp.op = "meet"
    /\ ~flows_to(heap[1], heap[2])
    /\ ~flows_to(heap[2], heap[1])
    /\ heap[lastOp.out.ret] \notin {heap[1], heap[2]}

\* C19: join(a, b) flows to every label both a and b flow to, and every
\* label that flows to both a and b flows to meet(a, b).
C19_JoinLeastMeetGreatest ==
    variant = "labels" =>
        LET a == heap[1]
            b == heap[2]
            c == heap[3]
        IN /\ (flows_to(a, c) /\ flows_to(b, c)) => flows_to(join(a, b), c)
           /\ (flows_to(c, a) /\ flows_to(c, b)) => flows_to(c, meet(a, b))
           /\ (lastOp.op = "join" /\ flows_to(a, c) /\ flows_to(b, c)) =>
                 flows_to(heap[lastOp.out.ret], c)
           /\ (lastOp.op = "meet" /\ flows_to(c, a) /\ flows_to(c, b)) =>
                 flows_to(c, heap[lastOp.out.ret])

\* Two labels neither of which flows to the other have been joined, and the
\* third label is an upper bound of both other than the join
C19_Witness ==
    /\ variant = "labels"
    /\ lastOp.op = "join"
    /\ ~flows_to(heap[1], heap[2])
    /\ ~flows_to(heap[2], heap[1])
    /\ flows_to(heap[1], heap[3]) /\ flows_to(heap[2], heap[3])
    /\ heap[3] # heap[lastOp.out.ret]

\* C20: add_book_offer under context C appends one new offer to the offer
\* list and returns its key if and only if VENDOR <= C; otherwise it raises
\* SecurityException and leaves the store, the offer list included, as it was.
C20_InsertNeedsVendorContext ==
    [][ (variant = "denning_db" /\ lastOp'.op = "add_book_offer") =>
           LET before == db.book_offers.value
               after == db'.book_offers.value
           IN /\ (~lastOp'.out.raised) <=> (VENDOR <= lastOp'.context_level)
              /\ (~lastOp'.out.raised) =>
                    /\ Len(after) = Len(before) + 1
                    /\ SubSeq(after, 1, Len(before)) = before
                    /\ lastOp'.out.ret = after[Len(after)].id.value
                    /\ after[Len(after)].title.value = lastOp'.args[1].title
              /\ lastOp'.out.raised => db' = db ]_vars

\* A second offer added under the lowest context that may add one
C20_Witness ==
    /\ variant = "denning_db"
    /\ lastOp.op = "add_book_offer"
    /\ lastOp.context_level = VENDOR
    /\ ~lastOp.out.raised
    /\ Len(db.book_offers.value) = 2
    /\ lastOp.out.ret = db.book_offers.value[2].id.value

\* C21: keys are never reused and the key counters never decrease. In every
\* state every key in a store is below that store's counter (the offers of
\* BookMarketDB are keyed book_1, book_2, ... in list order); no step lowers
\* a counter or shortens the offer list; and an accepted insert returns the
\* value the counter had, which is above every key allocated before, and
\* moves the counter up by one, also when earlier records have been sold.
C21_KeysNeverReused ==
    /\ [] ( /\ \A b \in DOMAIN pdb.books : b < pdb.next_book_id
            /\ \A q \in DOMAIN pdb.purchases : q < pdb.next_purchase_id
            /\ \A o \in DOMAIN mk.book_offers : o < mk.next_offer_id
            /\ \A i \in 1..Len(db.book_offers.value) :
                  db.book_offers.value[i].id.value = BookId(i) )
    /\ [][ /\ pdb'.next_book_id >= pdb.next_book_id
           /\ pdb'.next_purchase_id >= pdb.next_purchase_id
           /\ mk'.next_offer_id >= mk.next_offer_id
           /\ mk'.next_purchase_id >= mk.next_purchase_id
           /\ Len(db'.book_offers.value) >= Len(db.book_offers.value)
           /\ (variant = "platform" /\ lastOp'.op = "handle_offer"
                  /\ lastOp'.ret.success) =>
                 /\ lastOp'.ret.book_id = pdb.next_book_id
                 /\ lastOp'.ret.book_id \notin DOMAIN pdb.books
                 /\ pdb'.next_book_id = pdb.next_book_id + 1
           /\ (variant = "marketplace" /\ lastOp'.op = "offer_handler"
                  /\ lastOp'.ret.success) =>
                 /\ lastOp'.ret.offer_id = mk.next_offer_id
                 /\ lastOp'.ret.offer_id \notin DOMAIN mk.book_offers
                 /\ mk'.next_offer_id = mk.next_offer_id + 1
           /\ (variant \in {"denning_db", "denning_handlers", "denning_internal"}
                  /\ lastOp'.op \in {"add_book_offer", "handle_offer"}
                  /\ ~lastOp'.out.raised
                  /\ (lastOp'.op = "handle_offer" => lastOp'.out.ret.success)) =>
                 /\ Len(db'.book_offers.value) = Len(db.book_offers.value) + 1
                 /\ (IF lastOp'.op = "handle_offer" THEN lastOp'.out.ret.book_id
                     ELSE lastOp'.out.ret) = BookId(Len(db.book_offers.value) + 1)
         ]_vars

\* The platform has accepted a second offer after the first book was sold
C21_Witness ==
    /\ variant = "platform"
    /\ lastOp.op = "handle_offer"
    /\ lastOp.ret.success
    /\ lastOp.ret.book_id = 2
    /\ pdb.books[1].status = "sold"

C23_OnlyPlatformUpdatesView ==
    [][ (variant = "denning_internal" /\ lastOp'.op = "_update_availability_view") =>
           LET book_index == lastOp'.args[1]
               new_status == lastOp'.args[2]
               in_range == book_index >= 0 /\ book_index < Len(db.book_offers.value)
           IN /\ lastOp'.out.raised <=> (lastOp'.context_level < PLATFORM)
              /\ lastOp'.out.raised => db' = db
              /\ (~lastOp'.out.raised) => (lastOp'.out.ret <=> in_range)
              /\ (~lastOp'.out.raised /\ ~in_range) => db' = db
              /\ (~lastOp'.out.raised /\ in_range) =>
                    db' = [db EXCEPT
                             !.book_offers.value[book_index + 1].available_view.value
                                 = new_status]
      ]_vars

\* The platform has made the view of a sold offer say available again
C23_Witness ==
    /\ variant = "denning_internal"
    /\ lastOp.op = "_update_availability_view"
    /\ lastOp.context_level = PLATFORM
    /\ ~lastOp.out.raised
    /\ lastOp.out.ret
    /\ lastOp.args[2]
    /\ db.book_offers.value[lastOp.args[1] + 1].available_view.value
    /\ ~db.book_offers.value[lastOp.args[1] + 1]._available.value

\* C24: search_books raises no SecurityException, whatever the context level
\* and whatever offers and purchases came before; it returns a list, and
\* every offer in the list is one whose availability view is true.
C24_SearchNeverRaises ==
    (variant = "denning_db" /\ lastOp.op = "search_books") =>
        /\ ~lastOp.out.raised
        /\ \A k \in 1..Len(lastOp.out.ret) :
              \E i \in 1..Len(db.book_offers.value) :
                  /\ db.book_offers.value[i].id.value = lastOp.out.ret[k].id
                  /\ db.book_offers.value[i].available_view.value

\* A search under the lowest context that leaves out a sold offer and
\* returns the other one
C24_Witness ==
    /\ variant = "denning_db"
    /\ lastOp.op = "search_books"
    /\ lastOp.context_level = PUBLIC
    /\ ~lastOp.out.raised
    /\ Len(db.book_offers.value) = 2
    /\ Len(db.purchases.value) = 1
    /\ Len(lastOp.out.ret) = 1

\* The offers of BookMarketDB d, the books of the platform and the offers of
\* the marketplace for which a purchase record is stored
SoldOffers(d) ==
    { i \in 1..Len(d.book_offers.value) :
        \E k \in 1..Len(d.purchases.value) :
            d.purchases.value[k].book_id = d.book_offers.value[i].id.value }

SoldBooks == { pdb.purchases[q].data.book_id : q \in DOMAIN pdb.purchases }

SoldMarketOffers == { mk.purchases[q].offer_id : q \in DOMAIN mk.purchases }

\* C25: once a purchase of a record has succeeded the record stays
\* unavailable (the real status _available, the platform's status, the
\* marketplace's available), and every later purchase attempt for it, by
\* any customer at any price, fails and stores no purchase record.
C25_SoldStaysSold ==
    /\ [] ( /\ \A i \in SoldOffers(db) : ~db.book_offers.value[i]._available.value
            /\ \A b \in SoldBooks : pdb.books[b].status # "available"
            /\ \A o \in SoldMarketOffers : ~mk.book_offers[o].available )
    /\ [][ /\ ( /\ variant \in {"denning_db", "denning_handlers", "denning_internal"}
                /\ lastOp'.op \in {"purchase_book", "handle_purchase"}
                /\ \E i \in SoldOffers(db) :
                      db.book_offers.value[i].id.value = lastOp'.args[1] ) =>
                  /\ ~lastOp'.out.raised => ~lastOp'.out.ret.success
                  /\ db'.purchases = db.purchases
           /\ ( /\ variant = "platform" /\ lastOp'.op = "handle_purchase"
                /\ lastOp'.args[2] \in SoldBooks ) =>
                  /\ ~lastOp'.ret.success
                  /\ pdb'.purchases = pdb.purchases
           /\ ( /\ variant = "marketplace" /\ lastOp'.op = "purchase_handler"
                /\ lastOp'.args[2] \in SoldMarketOffers ) =>
                  /\ ~lastOp'.ret.success
                  /\ mk'.purchases = mk.purchases
         ]_vars

\* C26: in every state reached by offers, searches and purchases, every
\* record a search returns is available at that moment and has no purchase
\* record: a record that was purchased is in no later search result.
C26_SearchOmitsSold ==
    /\ ( /\ variant \in {"denning_db", "denning_handlers"}
         /\ lastOp.op \in {"search_books", "handle_search"}
         /\ ~lastOp.out.raised
         /\ (lastOp.op = "handle_search" => lastOp.out.ret.success) ) =>
           LET results == IF lastOp.op = "handle_search"
                          THEN lastOp.out.ret.results ELSE lastOp.out.ret
           IN \A k \in 1..Len(results) :
                 \E i \in 1..Len(db.book_offers.value) :
                     /\ db.book_offers.value[i].id.value = results[k].id
                     /\ db.book_offers.value[i]._available.value
                     /\ db.book_offers.value[i].available_view.value
                     /\ i \notin SoldOffers(db)
    /\ (variant = "platform" /\ lastOp.op = "handle_search") =>
           \A k \in 1..Len(lastOp.ret.results) :
               LET b == lastOp.ret.results[k].book_id
               IN pdb.books[b].status = "available" /\ b \notin SoldBooks
    /\ (variant = "marketplace" /\ lastOp.op = "search_handler") =>
           \A k \in 1..Len(lastOp.ret) :
               LET o == lastOp.ret[k].offer_id
               IN mk.book_offers[o].available /\ o \notin SoldMarketOffers

\* test_system's search after its purchase: of two matching offers the one
\* that was sold is left out
C26_Witness ==
    /\ variant = "denning_handlers"
    /\ lastOp.op = "handle_search"
    /\ lastOp.args[1] = <<>>
    /\ Len(db.book_offers.value) = 2
    /\ Cardinality(SoldOffers(db)) = 1
    /\ Len(lastOp.out.ret.results) = 1

\* The purchases of the marketplace made by customers who have opted in
OptedInPurchases ==
    { q \in DOMAIN mk.purchases :
        mk.customers[mk.purchases[q].customer_id].opt_in_marketing }

\* C27: get_marketing_data returns one entry for each purchase whose
\* customer has opt_in_marketing true at the time of the call, with that
\* customer's name and the purchased title, and none for any other
\* purchase. On the platform, the label handle_search builds for a
\* customer's search record names MarketingPartners as a reader exactly
\* when the customer has opted in.
C27_MarketingOnlyWithOptIn ==
    /\ (variant = "marketplace" /\ lastOp.op = "get_marketing_data") =>
          /\ Len(lastOp.ret) = Cardinality(OptedInPurchases)
          /\ \A k \in 1..Len(lastOp.ret) :
                \E q \in OptedInPurchases :
                    /\ lastOp.ret[k].customer_name =
                          mk.customers[mk.purchases[q].customer_id].name
                    /\ lastOp.ret[k].book_title =
                          mk.book_offers[mk.purchases[q].offer_id].title
    /\ variant = "platform" =>
          \A c \in DOMAIN pdb.customers :
              ("MarketingPartners" \in search_label(pdb, c).readers)
                  <=> pdb.customers[c].marketing_opt_in

\* Alice, who has opted in, and Bob, who has not, have each bought a book;
\* the marketing data has one entry, Alice's
C27_Witness ==
    /\ variant = "marketplace"
    /\ lastOp.op = "get_marketing_data"
    /\ Cardinality(DOMAIN mk.purchases) = 2
    /\ \E q \in DOMAIN mk.purchases : ~mk.customers[mk.purchases[q].customer_id].opt_in_marketing
    /\ Len(lastOp.ret) = 1
    /\ lastOp.ret[1].customer_name = "Alice Smith"

\* C28: at no point of a purchase, so after a crash at any step of it, is an
\* offer marked unavailable while no purchase record of it is stored.
C28_RecordBeforeSold ==
    variant = "threads" =>
        \A o \in DOMAIN mk.book_offers :
            ~mk.book_offers[o].available => PurchasesOf(o) # {}

\* The offer of BookMarketDB d that purchase_book finds for book_id: the
\* first one with that id, or 0 when there is none
FoundOffer(d, book_id) ==
    LET found == { i \in 1..Len(d.book_offers.value) :
                     d.book_offers.value[i].id.value = book_id }
    IN IF found = {} THEN 0 ELSE Min(found)

\* C29: a purchase (under CUSTOMER or above) of an offer whose real status
\* _available is false returns the failure 'Book is no longer available',
\* whatever its available_view says, and leaves the available_view false.
C29_RealStatusDecides ==
    [][ ( /\ variant \in {"denning_db", "denning_handlers", "denning_internal"}
          /\ lastOp'.op \in {"purchase_book", "handle_purchase"}
          /\ lastOp'.context_level >= CUSTOMER
          /\ FoundOffer(db, lastOp'.args[1]) # 0
          /\ ~db.book_offers.value[FoundOffer(db, lastOp'.args[1])]._available.value ) =>
            /\ ~lastOp'.out.raised
            /\ ~lastOp'.out.ret.success
            /\ lastOp'.out.ret.message = "Book is no longer available"
            /\ ~db'.book_offers.value[FoundOffer(db, lastOp'.args[1])].available_view.value
      ]_vars

\* C30: a purchase succeeds if and only if the customer exists, the record
\* exists, the record is available (the real status _available, the
\* platform's status, the marketplace's available) and the price offered
\* is the record's price; a successful purchase leaves the record
\* unavailable and adds exactly one purchase record, of that record and
\* that customer.
C30_PurchaseSucceedsIff ==
    [][ /\ ( /\ variant \in {"denning_db", "denning_handlers", "denning_internal"}
             /\ lastOp'.op \in {"purchase_book", "handle_purchase"}
             /\ lastOp'.context_level >= CUSTOMER ) =>
               LET book_id == lastOp'.args[1]
                   customer_id == lastOp'.args[2]
                   price == lastOp'.args[3]
                   i == FoundOffer(db, book_id)
                   success == ~lastOp'.out.raised /\ lastOp'.out.ret.success
               IN /\ success <=>
                        /\ customer_id \in DOMAIN db.customers.value
                        /\ i # 0
                        /\ db.book_offers.value[i]._available.value
                        /\ db.book_offers.value[i].price.value = price
                  /\ success =>
                        /\ ~db'.book_offers.value[i]._available.value
                        /\ Len(db'.purchases.value) = Len(db.purchases.value) + 1
                        /\ SubSeq(db'.purchases.value, 1, Len(db.purchases.value))
                              = db.purchases.value
                        /\ db'.purchases.value[Len(db'.purchases.value)].book_id = book_id
                        /\ db'.purchases.value[Len(db'.purchases.value)].customer_id
                              = customer_id
                  /\ ~success => db'.purchases = db.purchases
        /\ (variant = "platform" /\ lastOp'.op = "handle_purchase") =>
               LET customer_id == lastOp'.args[1]
                   book_id == lastOp'.args[2]
                   price == lastOp'.args[3]
                   added == DOMAIN pdb'.purchases \ DOMAIN pdb.purchases
               IN /\ lastOp'.ret.success <=>
                        /\ customer_id \in DOMAIN pdb.customers
                        /\ book_id \in DOMAIN pdb.books
                        /\ pdb.books[book_id].status = "available"
                        /\ pdb.books[book_id].data.price = price
                  /\ lastOp'.ret.success =>
                        /\ pdb'.books[book_id].status # "available"
                        /\ Cardinality(added) = 1
                        /\ \A q \in added :
                              /\ pdb'.purchases[q].data.book_id = book_id
                              /\ pdb'.purchases[q].data.customer_id = customer_id
                  /\ ~lastOp'.ret.success => pdb' = pdb
        /\ (variant = "marketplace" /\ lastOp'.op = "purchase_handler") =>
               LET customer_id == lastOp'.args[1]
                   offer_id == lastOp'.args[2]
                   price == lastOp'.args[3]
                   added == DOMAIN mk'.purchases \ DOMAIN mk.purchases
               IN /\ lastOp'.ret.success <=>
                        /\ customer_id \in DOMAIN mk.customers
                        /\ offer_id \in DOMAIN mk.book_offers
                        /\ mk.book_offers[offer_id].available
                        /\ mk.book_offers[offer_id].price = price
                  /\ lastOp'.ret.success =>
                        /\ ~mk'.book_offers[offer_id].available
                        /\ Cardinality(added) = 1
                        /\ \A q \in added :
                              /\ mk'.purchases[q].offer_id = offer_id
                              /\ mk'.purchases[q].customer_id = customer_id
                  /\ ~lastOp'.ret.success => mk' = mk
      ]_vars

BookPurchases(book_id) ==
    { k \in 1..Len(db.purchases.value) : db.purchases.value[k].book_id = book_id }

PlatformPurchases(book_id) ==
    { q \in DOMAIN pdb.purchases : pdb.purchases[q].data.book_id = book_id }

\* C32: after any sequence of completed offers and purchases, a record is
\* unavailable if and only if exactly one purchase record references it, and
\* every purchase record references an existing, unavailable record.
C32_SoldIffOnePurchase ==
    /\ variant \in {"denning_db", "denning_handlers"} =>
          /\ \A i \in 1..Len(db.book_offers.value) :
                LET offer == db.book_offers.value[i]
                IN ~offer._available.value <=>
                       Cardinality(BookPurchases(offer.id.value)) = 1
          /\ \A k \in 1..Len(db.purchases.value) :
                \E i \in 1..Len(db.book_offers.value) :
                    /\ db.book_offers.value[i].id.value = db.purchases.value[k].book_id
                    /\ ~db.book_offers.value[i]._available.value
    /\ variant = "platform" =>
          /\ \A b \in DOMAIN pdb.books :
                pdb.books[b].status # "available" <=>
                    Cardinality(PlatformPurchases(b)) = 1
          /\ \A q \in DOMAIN pdb.purchases :
                /\ pdb.purchases[q].data.book_id \in DOMAIN pdb.books
                /\ pdb.books[pdb.purchases[q].data.book_id].status # "available"
    /\ variant = "marketplace" =>
          /\ \A o \in DOMAIN mk.book_offers :
                ~mk.book_offers[o].available <=> Cardinality(PurchasesOf(o)) = 1
          /\ \A q \in DOMAIN mk.purchases :
                /\ mk.purchases[q].offer_id \in DOMAIN mk.book_offers
                /\ ~mk.book_offers[mk.purchases[q].offer_id].available

\* Two books were offered to the platform and both were bought
C32_Witness ==
    /\ variant = "platform"
    /\ Cardinality(DOMAIN pdb.books) = 2
    /\ \A b \in DOMAIN pdb.books : pdb.books[b].status = "sold"
    /\ Cardinality(DOMAIN pdb.purchases) = 2

\* C33: after any sequence of completed add_book_offer and purchase_book
\* calls (direct, or through handle_offer and handle_purchase), the PUBLIC
\* available_view of every offer has the value of its PLATFORM _available.
C33_ViewAgreesWithRealStatus ==
    variant \in {"denning_db", "denning_handlers"} =>
        \A i \in 1..Len(db.book_offers.value) :
            db.book_offers.value[i].available_view.value
                = db.book_offers.value[i]._available.value

\* purchase_book has just sold one of two offers: it is unavailable under
\* both cells, the other one available under both
C33_Witness ==
    /\ variant = "denning_db"
    /\ lastOp.op = "purchase_book"
    /\ ~lastOp.out.raised
    /\ lastOp.out.ret.success
    /\ Len(db.book_offers.value) = 2
    /\ \E i, j \in 1..2 :
          /\ ~db.book_offers.value[i]._available.value
          /\ ~db.book_offers.value[i].available_view.value
          /\ db.book_offers.value[j]._available.value
          /\ db.book_offers.value[j].available_view.value

\* C34: two concurrent calls of add_book_offer never allocate the same key:
\* once both have returned, the two returned keys differ, and the store
\* holds a record under each of them.
C34_ConcurrentOffersGetDistinctKeys ==
    (variant = "offers" /\ \A t \in Threads : th[t].pc = "done") =>
        /\ th[1].ret # th[2].ret
        /\ \A t \in Threads :
              \E i \in 1..Len(db.book_offers.value) :
                  /\ db.book_offers.value[i].id.value = th[t].ret
                  /\ db.book_offers.value[i].title.value = th[t].offer_data.title

====
